---- MODULE Spec2Model ----
(***************************************************************************)
(* A model of the llmrouter gateway: the provider registry and the model   *)
(* index of router.go (refresh, quarantine, re-admission, selection, load  *)
(* accounting, the health reconciler) and the request handlers built on    *)
(* them.                                                                   *)
(***************************************************************************)
EXTENDS Integers, Sequences, FiniteSets, TLC

(***************************************************************************)
(* Strings.  Go strings are modelled as sequences of one-character strings *)
(* so that strings.Contains and strings.ToLower are computed, not assumed. *)
(***************************************************************************)
\* "ABCDEFGHIJKLMNOPQRSTUVWXYZ"
Upper ==
  <<"A","B","C","D","E","F","G","H","I","J","K","L","M","N","O","P","Q","R","S","T","U","V","W","X","Y","Z">>

\* "abcdefghijklmnopqrstuvwxyz"
Lower ==
  <<"a","b","c","d","e","f","g","h","i","j","k","l","m","n","o","p","q","r","s","t","u","v","w","x","y","z">>

\* "not found"
NotFound ==
  <<"n","o","t"," ","f","o","u","n","d">>

\* "failed to make request: "
FailedToMakeRequest ==
  <<"f","a","i","l","e","d"," ","t","o"," ","m","a","k","e"," ","r","e","q","u","e","s","t",":"," ">>

\* "failed to decode response: unexpected end of JSON input"
FailedToDecode ==
  <<"f","a","i","l","e","d"," ","t","o"," ","d","e","c","o","d","e"," ","r","e","s","p","o","n","s","e",":"," ","u","n","e","x","p","e","c","t","e","d"," ","e","n","d"," ","o","f"," ","J","S","O","N"," ","i","n","p","u","t">>

\* "model "
ModelPrefix ==
  <<"m","o","d","e","l"," ">>

\* " not found in any provider"
NotFoundInAnyProvider ==
  <<" ","n","o","t"," ","f","o","u","n","d"," ","i","n"," ","a","n","y"," ","p","r","o","v","i","d","e","r">>

\* "no enabled provider found for model "
NoEnabledProvider ==
  <<"n","o"," ","e","n","a","b","l","e","d"," ","p","r","o","v","i","d","e","r"," ","f","o","u","n","d"," ","f","o","r"," ","m","o","d","e","l"," ">>

\* "API returned status "
APIReturnedStatus ==
  <<"A","P","I"," ","r","e","t","u","r","n","e","d"," ","s","t","a","t","u","s"," ">>

\* unicode.ToLower on one ASCII character
ToLowerChar(c) ==
  IF \E i \in 1..Len(Upper) : Upper[i] = c
  THEN Lower[CHOOSE i \in 1..Len(Upper) : Upper[i] = c]
  ELSE c

\* strings.ToLower
ToLower(s) ==
  [i \in 1..Len(s) |-> ToLowerChar(s[i])]

\* strings.Contains
Contains(s, substr) ==
  \E i \in 0..(Len(s) - Len(substr)) : SubSeq(s, i + 1, i + Len(substr)) = substr

\* the patterns of isConnectionError, in the order of the source
connectionPatterns ==
  \* "connection refused"
  << <<"c","o","n","n","e","c","t","i","o","n"," ","r","e","f","u","s","e","d">>,
  \* "connection reset"
     <<"c","o","n","n","e","c","t","i","o","n"," ","r","e","s","e","t">>,
  \* "connection timeout"
     <<"c","o","n","n","e","c","t","i","o","n"," ","t","i","m","e","o","u","t">>,
  \* "no such host"
     <<"n","o"," ","s","u","c","h"," ","h","o","s","t">>,
  \* "network is unreachable"
     <<"n","e","t","w","o","r","k"," ","i","s"," ","u","n","r","e","a","c","h","a","b","l","e">>,
  \* "temporary failure"
     <<"t","e","m","p","o","r","a","r","y"," ","f","a","i","l","u","r","e">>,
  \* "timeout"
     <<"t","i","m","e","o","u","t">>,
  \* "dial"
     <<"d","i","a","l">>,
  \* "EOF"
     <<"E","O","F">>,
  \* "connection closed"
     <<"c","o","n","n","e","c","t","i","o","n"," ","c","l","o","s","e","d">> >>

fatalAPIPatterns ==
  \* "missing tensor"
  << <<"m","i","s","s","i","n","g"," ","t","e","n","s","o","r">>,
  \* "llama runner process has terminated"
     <<"l","l","a","m","a"," ","r","u","n","n","e","r"," ","p","r","o","c","e","s","s"," ","h","a","s"," ","t","e","r","m","i","n","a","t","e","d">>,
  \* "model runner has unexpectedly stopped"
     <<"m","o","d","e","l"," ","r","u","n","n","e","r"," ","h","a","s"," ","u","n","e","x","p","e","c","t","e","d","l","y"," ","s","t","o","p","p","e","d">> >>

(***************************************************************************)
(* The errors an upstream call can return.  OpenAIClientImpl wraps the     *)
(* error of http.Client.Do as "failed to make request: <cause>" and turns  *)
(* a non-200 answer into "API returned status <code>: <body>".             *)
(***************************************************************************)
\* fmt.Errorf("failed to make request: %w", err)
MakeRequestError(cause) ==
  FailedToMakeRequest \o cause

\* fmt.Errorf("API returned status %d: %s", resp.StatusCode, string(body))
APIStatusError(code, body) ==
  APIReturnedStatus \o code \o <<":", " ">> \o body

\* transport failures of http.Client.Do, one for each listed substring
TransportCause ==
  \* "connect: connection refused"
     ("refused" :> <<"c","o","n","n","e","c","t",":"," ","c","o","n","n","e","c","t","i","o","n"," ","r","e","f","u","s","e","d">>)
  \* "read: connection reset by peer"
  @@ ("reset" :> <<"r","e","a","d",":"," ","c","o","n","n","e","c","t","i","o","n"," ","r","e","s","e","t"," ","b","y"," ","p","e","e","r">>)
  \* "connection timeout"
  @@ ("conn_timeout" :> <<"c","o","n","n","e","c","t","i","o","n"," ","t","i","m","e","o","u","t">>)
  \* "lookup upstream: no such host"
  @@ ("no_host" :> <<"l","o","o","k","u","p"," ","u","p","s","t","r","e","a","m",":"," ","n","o"," ","s","u","c","h"," ","h","o","s","t">>)
  \* "connect: network is unreachable"
  @@ ("unreachable" :> <<"c","o","n","n","e","c","t",":"," ","n","e","t","w","o","r","k"," ","i","s"," ","u","n","r","e","a","c","h","a","b","l","e">>)
  \* "Temporary failure in name resolution"
  @@ ("temp_fail" :> <<"T","e","m","p","o","r","a","r","y"," ","f","a","i","l","u","r","e"," ","i","n"," ","n","a","m","e"," ","r","e","s","o","l","u","t","i","o","n">>)
  \* "Client.Timeout exceeded while awaiting headers"
  @@ ("timeout" :> <<"C","l","i","e","n","t",".","T","i","m","e","o","u","t"," ","e","x","c","e","e","d","e","d"," ","w","h","i","l","e"," ","a","w","a","i","t","i","n","g"," ","h","e","a","d","e","r","s">>)
  \* "dial tcp: operation was canceled"
  @@ ("dial" :> <<"d","i","a","l"," ","t","c","p",":"," ","o","p","e","r","a","t","i","o","n"," ","w","a","s"," ","c","a","n","c","e","l","e","d">>)
  \* "EOF"
  @@ ("eof" :> <<"E","O","F">>)
  \* "connection closed by server"
  @@ ("closed" :> <<"c","o","n","n","e","c","t","i","o","n"," ","c","l","o","s","e","d"," ","b","y"," ","s","e","r","v","e","r">>)

\* non-200 answers whose body carries a fatal upstream API marker
FatalAnswer ==
  \* 500 "missing tensor"
     ("missing_tensor" :> <<<<"5","0","0">>, <<"m","i","s","s","i","n","g"," ","t","e","n","s","o","r">>>>)
  \* 500 "llama runner process has terminated"
  @@ ("runner_terminated" :> <<<<"5","0","0">>, <<"l","l","a","m","a"," ","r","u","n","n","e","r"," ","p","r","o","c","e","s","s"," ","h","a","s"," ","t","e","r","m","i","n","a","t","e","d">>>>)
  \* 500 "model runner has unexpectedly stopped"
  @@ ("runner_stopped" :> <<<<"5","0","0">>, <<"m","o","d","e","l"," ","r","u","n","n","e","r"," ","h","a","s"," ","u","n","e","x","p","e","c","t","e","d","l","y"," ","s","t","o","p","p","e","d">>>>)

\* non-200 answers of a reachable upstream without a fatal marker
StatusAnswer ==
  \* 500 "internal error"
     ("status500" :> <<<<"5","0","0">>, <<"i","n","t","e","r","n","a","l"," ","e","r","r","o","r">>>>)
  \* 429 "rate limit exceeded"
  @@ ("status429" :> <<<<"4","2","9">>, <<"r","a","t","e"," ","l","i","m","i","t"," ","e","x","c","e","e","d","e","d">>>>)
  \* 504 "gateway timeout"
  @@ ("status504" :> <<<<"5","0","4">>, <<"g","a","t","e","w","a","y"," ","t","i","m","e","o","u","t">>>>)
  \* 404 "model not found"
  @@ ("status404" :> <<<<"4","0","4">>, <<"m","o","d","e","l"," ","n","o","t"," ","f","o","u","n","d">>>>)

TransportIds == DOMAIN TransportCause
FatalIds == DOMAIN FatalAnswer
StatusIds == DOMAIN StatusAnswer
\* a 200 answer whose body does not decode
DecodeIds == {"decode"}
ErrorIds == TransportIds \cup FatalIds \cup StatusIds \cup DecodeIds

\* err.Error() of the error an upstream call returns
ErrorText(id) ==
  IF id \in TransportIds THEN MakeRequestError(TransportCause[id])
  ELSE IF id \in FatalIds THEN APIStatusError(FatalAnswer[id][1], FatalAnswer[id][2])
  ELSE IF id \in StatusIds THEN APIStatusError(StatusAnswer[id][1], StatusAnswer[id][2])
  ELSE FailedToDecode

\* Router.isConnectionError: the connection patterns are searched in the
\* lower-cased text, the fatal API patterns in the text as it is
isConnectionError(errStr) ==
  \/ \E i \in 1..Len(connectionPatterns) :
        Contains(ToLower(errStr), connectionPatterns[i])
  \/ \E i \in 1..Len(fatalAPIPatterns) :
        Contains(errStr, fatalAPIPatterns[i])

\* the upstream errors on which the router quarantines the provider
QuarantiningIds ==
  {id \in ErrorIds : isConnectionError(ErrorText(id))}

(***************************************************************************)
(* Configuration.  NewRouter registers the enabled providers of the        *)
(* config only, so every registered provider has Enabled = true.           *)
(***************************************************************************)
Providers == {"A", "B"}

Models == {"m1", "m2", "m3"}

\* the model ids a provider offers: the config's models list of a static
\* provider, the answer of list_models of a dynamic one
Offered ==
  ("A" :> <<"m1", "m2", "m3">>) @@ ("B" :> <<"m1", "m2", "m3">>)

Allowlist ==
  ("A" :> <<>>) @@ ("B" :> <<"m1", "m3">>)

Denylist ==
  ("A" :> <<"m3">>) @@ ("B" :> <<"m3">>)

\* the sets of providers configured with a static models list
StaticChoices == {{"B"}}

\* bounds of the model: the GET /v1/models requests and the chat completion
\* requests that clients have under way at a time
MaxRefresh == 1
MaxReq == 1

\* the RefreshModels calls: 1..MaxRefresh are those of HandleModels, and the
\* health check task has one more for each provider it can re-enable
ProviderSeq == <<"A", "B">>
HandlerIds == 1..MaxRefresh
TaskRefresh(p) == MaxRefresh + CHOOSE n \in 1..Len(ProviderSeq) : ProviderSeq[n] = p
RefreshIds == 1..(MaxRefresh + Len(ProviderSeq))
ReqIds == 1..MaxReq

VARIABLES
  StaticModels,       \* Provider.StaticModels, by provider name
  Healthy,            \* Provider.Healthy
  ActiveCompletions,  \* Provider.ActiveCompletions
  ModelMap,           \* Router.ModelMap: model id -> sequence of provider names
  reachable,          \* environment: the upstream answers at all
  ref,                \* the running RefreshModels calls
  req,                \* the running chat completion calls
  hc,                 \* the health check task
  quarantined,        \* history: quarantined and not re-admitted by the health check
  call,               \* load accounting: the chat completion goroutines, step by step
  http,               \* request handlers: the request handled last and its answer
  stream,             \* streaming: the upstream body and what the client has received
  gate,               \* HTTP mux: the request served last and what the middleware did
  drv,                \* tool-calling driver: the run of CreateChatCompletionWithTools
  tools,              \* MCP: the tools directory on disk
  mcp,                \* MCP: the request served last and its answer
  script,             \* MCP: the run of a tool script
  cyc,                \* registry: a quarantine, re-admission and refresh in sequence
  shut,               \* shutdown: the once, the channel, the wait group and the callers
  lock,               \* index lock: ModelMapMu and the calls that take it or do not
  stored              \* responses: the stored responses and their background processing

vars == <<StaticModels, Healthy, ActiveCompletions, ModelMap, reachable, ref, req, hc, quarantined, call, http, stream, gate, drv, tools, mcp, script, cyc, shut, lock, stored>>

\* the variables of the provider registry, of the requests and of streaming
servingVars == <<StaticModels, Healthy, ActiveCompletions, ModelMap, reachable, ref, req, hc, quarantined, call, http, stream, cyc, shut, lock, stored>>

\* the variables that the actions of the routing part (Spec) never change
othersRouting == <<StaticModels, call, http, stream, gate, drv, tools, mcp, script, cyc, shut, lock, stored>>

Range(s) == {s[i] : i \in 1..Len(s)}

\* the orders in which a Go map of the names in S can be iterated
RECURSIVE Orders(_)
Orders(S) ==
  IF S = {} THEN {<<>>}
  ELSE UNION {{<<x>> \o o : o \in Orders(S \ {x})} : x \in S}

\* mutant of shouldIncludeModel: the allowlist is looked at first
shouldIncludeModel_AllowFirst(model, allowlist, denylist) ==
  IF Len(allowlist) > 0 /\ \E i \in 1..Len(allowlist) : model = allowlist[i]
  THEN TRUE
  ELSE IF Len(denylist) > 0 /\ \E i \in 1..Len(denylist) : model = denylist[i]
       THEN FALSE
       ELSE Len(allowlist) = 0

\* shouldIncludeModel
shouldIncludeModel(model, allowlist, denylist) ==
  IF Len(denylist) > 0 /\ \E i \in 1..Len(denylist) : model = denylist[i]
  THEN FALSE
  ELSE IF Len(allowlist) > 0
       THEN \E i \in 1..Len(allowlist) : model = allowlist[i]
       ELSE TRUE

\* the model ids of provider p that RefreshModels puts in modelSet
Accepted(p) ==
  {m \in Range(Offered[p]) : shouldIncludeModel(m, Allowlist[p], Denylist[p])}

\* modelSet of a refresh that has taken the models of the providers in got
ModelSet(got) ==
  [m \in {x \in Models : \E p \in got : x \in Accepted(p)} |->
      {p \in got : m \in Accepted(p)}]

\* RefreshModels, first statement: the index is replaced by an empty map
ClearModelMap(map) ==
  [m \in {} |-> <<>>]

\* RefreshModels, last loop: the maps the index can become when modelSet is
\* written into it (each entry in any iteration order of its provider set;
\* the entries of other models stay as they are)
BuildModelMap(map, modelSet) ==
  LET entries(m) == IF m \in DOMAIN modelSet THEN Orders(modelSet[m]) ELSE {map[m]}
      ids == DOMAIN map \cup DOMAIN modelSet
  IN  {f \in [ids -> UNION {entries(m) : m \in ids}] : \A m \in ids : f[m] \in entries(m)}

\* mutant of RemoveFromModelMap: the entries left empty are not deleted
RemoveFromModelMap_KeepEmpty(map, providerName) ==
  [m \in DOMAIN map |-> SelectSeq(map[m], LAMBDA p : p # providerName)]

\* DisableProvider, the loop over the index: the provider is taken out of
\* every entry and the entries left empty are deleted
RemoveFromModelMap(map, providerName) ==
  LET newProviders(m) == SelectSeq(map[m], LAMBDA p : p # providerName)
      keep == {m \in DOMAIN map : Len(newProviders(m)) # 0}
  IN  [m \in keep |-> newProviders(m)]

\* the loop of GetProviderForModel over the providers of a model
RECURSIVE LeastLoaded(_, _, _, _, _)
LeastLoaded(providers, active, i, minCompletions, selectedProvider) ==
  IF i > Len(providers) THEN selectedProvider
  ELSE IF providers[i] \notin Providers
       THEN LeastLoaded(providers, active, i + 1, minCompletions, selectedProvider)
       ELSE IF minCompletions = -1 \/ active[providers[i]] < minCompletions
            THEN LeastLoaded(providers, active, i + 1, active[providers[i]], providers[i])
            ELSE LeastLoaded(providers, active, i + 1, minCompletions, selectedProvider)

\* GetProviderForModel: the provider name, and which error ("" for none)
GetProviderForModel(map, active, model) ==
  IF model \notin DOMAIN map
  THEN [name |-> "", err |-> "model_not_found"]
  ELSE IF Len(map[model]) = 1
       THEN [name |-> map[model][1], err |-> ""]
       ELSE LET selectedProvider == LeastLoaded(map[model], active, 1, -1, "")
            IN  IF selectedProvider = ""
                THEN [name |-> "", err |-> "no_enabled_provider"]
                ELSE [name |-> selectedProvider, err |-> ""]

(***************************************************************************)
(* The provider registry                                                   *)
(***************************************************************************)
\* DisableProvider(p), under ModelMapMu
DisableProvider(p) ==
  IF Healthy[p]
  THEN /\ Healthy' = [Healthy EXCEPT ![p] = FALSE]
       /\ ModelMap' = RemoveFromModelMap(ModelMap, p)
       /\ quarantined' = [quarantined EXCEPT ![p] = TRUE]
  ELSE /\ UNCHANGED <<Healthy, ModelMap>>
       /\ quarantined' = [quarantined EXCEPT ![p] = TRUE]

\* mutant of EnableProvider: the provider is left as it is
EnableProvider_Noop(p) ==
  UNCHANGED Healthy

\* EnableProvider(p)
EnableProvider(p) ==
  Healthy' = [Healthy EXCEPT ![p] = TRUE]

\* bounds: the lines of an upstream body, and the tokens of a prompt
MaxLines == 3
MaxPrompt == 2

NoUsage == [from |-> "none", prompt |-> 0, completion |-> 0, total |-> 0]

\* the usage object an upstream sends when it sends one
UpstreamUsage == [from |-> "upstream", prompt |-> 1, completion |-> 1, total |-> 2]

\* the tokens AddCompletionTokensFromDelta counts for the delta of a chunk
DeltaTokens == 1

\* TokenCounter.InjectUsageIfMissing on a response without usage
InjectUsageIfMissing(prompt, completion) ==
  [from |-> "estimate", prompt |-> prompt, completion |-> completion, total |-> prompt + completion]

\* mutant of CopyUsageBack: the estimate is put into every response
CopyUsageBack_Overwrite(usage, prompt, completion) ==
  InjectUsageIfMissing(prompt, completion)

\* CreateChatCompletion, "Copy usage back to our response": the estimate is
\* put into the response only if the response of the upstream has no usage
CopyUsageBack(usage, prompt, completion) ==
  IF usage = NoUsage THEN InjectUsageIfMissing(prompt, completion) ELSE usage

IdleRefresh == [pc |-> "idle", todo |-> {}, fetching |-> {}, got |-> {}, failed |-> {}]
IdleReq == [pc |-> "idle", prov |-> ""]
IdleCall == [pc |-> "idle", model |-> "", prov |-> "", val |-> 0]
NoResponse == [path |-> "none", model |-> "", prov |-> "", outcome |-> "", failed |-> FALSE, status |-> 0,
               upstream |-> NoUsage, usage |-> NoUsage]
NoStream == [pc |-> "idle", body |-> <<>>, in |-> <<>>, out |-> <<>>, prompt |-> 0, completion |-> 0]
NoGate == [token |-> <<>>, services |-> {}, method |-> "", path |-> <<>>, header |-> <<>>, matched |-> "", ran |-> FALSE, status |-> 0]
\* number of different argument values the model uses
MaxArgs == 5

\* the two tools the driver offers and processes
ToolNames == {"tool_search", "execute_tool"}

\* a tool name the model made up
OtherName == "get_weather"

Args == 1..MaxArgs

\* a call of a tool that does not exist
Hallucinated == [name |-> OtherName, args |-> 1]

\* the tool calls of a response
ToolCalls == [name : ToolNames, args : Args] \cup {Hallucinated}

\* toolCallKey: the name and the serialized arguments
toolCallKey(name, args) == <<name, args>>

Keys == {toolCallKey(n, a) : n \in ToolNames, a \in Args}

\* lastToolCallKey before the first tool call (the empty string)
NoKey == <<>>

\* the driver before a run
NoDriver ==
  [pc |-> "idle", mcpServer |-> FALSE, iteration |-> 0,
   recentToolCalls |-> [k \in Keys |-> 0], lastToolCallKey |-> NoKey,
   executed |-> [k \in Keys |-> 0], completions |-> 0, fallbacks |-> 0,
   result |-> "", turn1 |-> <<>>, agree |-> FALSE,
   history |-> FALSE, toolCalls |-> <<>>, singleToolCall |-> <<>>,
   systemMessages |-> 0, tools |-> FALSE, prevExecuted |-> <<>>]
\* the directories under the tools root, in the order filepath.Walk visits them
DirSeq == <<"d1", "d2">>

Dirs == {DirSeq[i] : i \in 1..Len(DirSeq)}

\* a directory that does not exist (or holds no tool.toml that parses)
Absent ==
  [present |-> FALSE, name |-> "", visibility |-> "", keywords |-> {},
   script |-> FALSE, content |-> ""]

\* the tools root without any tool directory
NoTools == [d \in Dirs |-> Absent]

\* no MCP request has been served
NoMCP ==
  [mode |-> "", method |-> "none", arg |-> "", attached |-> FALSE, list |-> {},
   found |-> {}, run |-> [status |-> "", content |-> ""],
   stale |-> FALSE, afterChange |-> FALSE]
\* no script has run
NoScript ==
  [pc |-> "idle", code |-> <<>>, output |-> <<>>,
   err |-> [set |-> FALSE, text |-> <<>>], value |-> [set |-> FALSE, text |-> <<>>],
   mcpResult |-> [set |-> FALSE, text |-> <<>>],
   returned |-> {}, lastReturn |-> [set |-> FALSE, text |-> <<>>], returns |-> <<>>,
   response |-> [error |-> FALSE, text |-> <<>>]]

\* bound: the responses that are created
MaxResponses == 2

ResponseIds == 1..MaxResponses

\* no response has been created
NoStored ==
  [r \in ResponseIds |->
     [status |-> "none", pc |-> "none", prev |-> 0, copy |-> "none", cancelled |-> FALSE]]

\* no quarantine cycle is under way
NoCycle ==
  [pc |-> "idle", p |-> "", fresh |-> <<>>]

\* no call of Shutdown or StopBackgroundTasks has been made
NoShutdown ==
  [once |-> "new", closed |-> 0, services |-> 0, wg |-> 0, task |-> "none", callers |-> <<>>]

\* ModelMapMu is free and no call that takes it is under way
NoLock ==
  [writer |-> "", readers |-> 0, disable |-> [pc |-> "idle", p |-> ""],
   health |-> [pc |-> "idle", models |-> {}, healthy |-> {}]]

Init ==
  /\ StaticModels \in {[p \in Providers |-> p \in S] : S \in StaticChoices}
  /\ Healthy = [p \in Providers |-> TRUE]
  /\ ActiveCompletions = [p \in Providers |-> 0]
  /\ ModelMap = [m \in {} |-> <<>>]
  /\ reachable = [p \in Providers |-> TRUE]
  /\ ref = [i \in RefreshIds |-> IdleRefresh]
  /\ req = [k \in ReqIds |-> IdleReq]
  /\ hc = {}
  /\ quarantined = [p \in Providers |-> FALSE]
  /\ call = <<>>
  /\ http = NoResponse
  /\ stream = NoStream
  /\ gate = NoGate
  /\ drv = NoDriver
  /\ tools = NoTools
  /\ mcp = NoMCP
  /\ script = NoScript
  /\ cyc = NoCycle
  /\ shut = NoShutdown
  /\ lock = NoLock
  /\ stored = NoStored

(***************************************************************************)
(* RefreshModels                                                           *)
(***************************************************************************)
\* the first part of RefreshModels: the index is cleared under the lock and
\* the static models are put in modelSet
RefreshBegin(i) ==
  /\ ModelMap' = ClearModelMap(ModelMap)
  /\ ref' = [ref EXCEPT ![i] = [pc |-> "loop",
                                todo |-> {p \in Providers : ~StaticModels[p]},
                                fetching |-> {},
                                got |-> {p \in Providers : StaticModels[p]},
                                failed |-> {}]]

\* the slot a new RefreshModels call takes: the first idle one (0 for none)
FreeRefresh ==
  IF \E i \in HandlerIds : ref[i].pc = "idle"
  THEN CHOOSE i \in HandlerIds : ref[i].pc = "idle" /\ \A j \in 1..(i - 1) : ref[j].pc # "idle"
  ELSE 0

\* the slot a new request takes: the first idle one (0 for none)
FreeReq ==
  IF \E k \in ReqIds : req[k].pc = "idle"
  THEN CHOOSE k \in ReqIds : req[k].pc = "idle" /\ \A j \in 1..(k - 1) : req[j].pc # "idle"
  ELSE 0

\* GET /v1/models: HandleModels calls RefreshModels and answers with
\* ListModels when it returns
HandleModels(i) ==
  /\ i = FreeRefresh
  /\ RefreshBegin(i)
  /\ UNCHANGED <<othersRouting, Healthy, ActiveCompletions, reachable, req, hc, quarantined>>

\* the refresh the health check task has started begins to run
RefreshStart(i) ==
  /\ ref[i].pc = "start"
  /\ RefreshBegin(i)
  /\ UNCHANGED <<othersRouting, Healthy, ActiveCompletions, reachable, req, hc, quarantined>>

\* the second loop of RefreshModels visits provider p: a goroutine is started
\* for it if it is healthy
RefreshVisit(i, p) ==
  /\ ref[i].pc = "loop"
  /\ p \in ref[i].todo
  /\ ref' = [ref EXCEPT ![i].todo = @ \ {p},
                        ![i].fetching = IF Healthy[p] THEN @ \cup {p} ELSE @]
  /\ UNCHANGED <<othersRouting, Healthy, ActiveCompletions, ModelMap, reachable, req, hc, quarantined>>

\* the goroutine of p: ListModelsWithTimeout fails, the provider is disabled
RefreshFetchFail(i, p) ==
  /\ ref[i].pc = "loop"
  /\ p \in ref[i].fetching
  /\ ~reachable[p]
  /\ DisableProvider(p)
  /\ ref' = [ref EXCEPT ![i].fetching = @ \ {p}, ![i].failed = @ \cup {p}]
  /\ UNCHANGED <<othersRouting, ActiveCompletions, reachable, req, hc>>

\* the goroutine of p: ListModelsWithTimeout succeeds, the provider is enabled
\* if it is not healthy and its accepted models are put in modelSet
RefreshFetchOK(i, p) ==
  /\ ref[i].pc = "loop"
  /\ p \in ref[i].fetching
  /\ reachable[p]
  /\ IF ~Healthy[p] THEN EnableProvider(p) ELSE UNCHANGED Healthy
  /\ ref' = [ref EXCEPT ![i].fetching = @ \ {p}, ![i].got = @ \cup {p}]
  /\ UNCHANGED <<othersRouting, ActiveCompletions, ModelMap, reachable, req, hc, quarantined>>

\* after wg.Wait: modelSet is written into the index under the lock
RefreshBuild(i) ==
  /\ ref[i].pc = "loop"
  /\ ref[i].todo = {}
  /\ ref[i].fetching = {}
  /\ ModelMap' \in BuildModelMap(ModelMap, ModelSet(ref[i].got))
  /\ ref' = [ref EXCEPT ![i] = IdleRefresh]
  /\ UNCHANGED <<othersRouting, Healthy, ActiveCompletions, reachable, req, hc, quarantined>>

\* ListModels: the ids of the index
ListModels(map) ==
  DOMAIN map

(***************************************************************************)
(* Chat completions                                                        *)
(***************************************************************************)
\* CreateChatCompletion / CreateChatCompletionRaw up to the upstream call:
\* the provider is selected and its counter incremented
Dispatch(k, model) ==
  /\ k = FreeReq
  /\ LET sel == GetProviderForModel(ModelMap, ActiveCompletions, model)
     IN  IF sel.err # ""
         THEN UNCHANGED <<req, ActiveCompletions>>
         ELSE /\ req' = [req EXCEPT ![k] = [pc |-> "call", prov |-> sel.name]]
              /\ ActiveCompletions' = [ActiveCompletions EXCEPT ![sel.name] = @ + 1]
  /\ UNCHANGED <<othersRouting, Healthy, ModelMap, reachable, ref, hc, quarantined>>

\* the errors the upstream call to p can end with
CallErrors(p) ==
  IF reachable[p] THEN FatalIds \cup StatusIds \cup DecodeIds ELSE TransportIds

\* the upstream call succeeds
CallOK(k) ==
  /\ req[k].pc = "call"
  /\ reachable[req[k].prov]
  /\ ActiveCompletions' = [ActiveCompletions EXCEPT ![req[k].prov] = IF @ > 0 THEN @ - 1 ELSE @]
  /\ req' = [req EXCEPT ![k] = IdleReq]
  /\ UNCHANGED <<othersRouting, Healthy, ModelMap, reachable, ref, hc, quarantined>>

\* the upstream call fails with one of the errors it can end with: the
\* provider is disabled if isConnectionError says so
CallError(k, disable) ==
  /\ req[k].pc = "call"
  /\ \E e \in CallErrors(req[k].prov) : disable = (e \in QuarantiningIds)
  /\ IF disable
     THEN DisableProvider(req[k].prov)
     ELSE UNCHANGED <<Healthy, ModelMap, quarantined>>
  /\ ActiveCompletions' = [ActiveCompletions EXCEPT ![req[k].prov] = IF @ > 0 THEN @ - 1 ELSE @]
  /\ req' = [req EXCEPT ![k] = IdleReq]
  /\ UNCHANGED <<othersRouting, reachable, ref, hc>>

(***************************************************************************)
(* The health check task                                                   *)
(***************************************************************************)
\* mutant of unhealthyProviders: the static providers are not skipped
unhealthyProviders_WithStatic ==
  {p \in Providers : ~Healthy[p]}

\* checkDisabledProviders, first loop: the providers that are enabled, not
\* healthy and not static
unhealthyProviders ==
  {p \in Providers : ~Healthy[p] /\ ~StaticModels[p]}

\* a tick: checkDisabledProviders collects the unhealthy providers that are
\* not static and starts one probe for each; hc holds the probes under way.
\* A refresh the task starts has a deadline of one ticker period (30 s); a
\* tick is taken here once the refreshes of the tick before are over.
Tick ==
  /\ hc = {}
  /\ \A p \in Providers : ref[TaskRefresh(p)].pc = "idle"
  /\ unhealthyProviders # {}
  /\ hc' = unhealthyProviders
  /\ UNCHANGED <<othersRouting, Healthy, ActiveCompletions, ModelMap, reachable, ref, req, quarantined>>

\* the probe of p fails: nothing changes
ProbeFail(p) ==
  /\ p \in hc
  /\ ~reachable[p]
  /\ hc' = hc \ {p}
  /\ UNCHANGED <<othersRouting, Healthy, ActiveCompletions, ModelMap, reachable, ref, req, quarantined>>

\* the probe of p succeeds: the provider is enabled and a refresh is started
\* in a goroutine of its own
ProbeOK(p) ==
  /\ p \in hc
  /\ reachable[p]
  /\ EnableProvider(p)
  /\ quarantined' = [quarantined EXCEPT ![p] = FALSE]
  /\ ref' = [ref EXCEPT ![TaskRefresh(p)].pc = "start"]
  /\ hc' = hc \ {p}
  /\ UNCHANGED <<othersRouting, ActiveCompletions, ModelMap, reachable, req>>

\* environment: an upstream goes away or comes back
Flip(p) ==
  /\ reachable' = [reachable EXCEPT ![p] = ~@]
  /\ UNCHANGED <<othersRouting, Healthy, ActiveCompletions, ModelMap, ref, req, hc, quarantined>>

Next ==
  \/ \E i \in HandlerIds : HandleModels(i)
  \/ \E i \in RefreshIds : RefreshStart(i)
  \/ \E i \in RefreshIds, p \in Providers : RefreshVisit(i, p)
  \/ \E i \in RefreshIds, p \in Providers : RefreshFetchFail(i, p)
  \/ \E i \in RefreshIds, p \in Providers : RefreshFetchOK(i, p)
  \/ \E i \in RefreshIds : RefreshBuild(i)
  \/ \E k \in ReqIds, m \in Models : Dispatch(k, m)
  \/ \E k \in ReqIds : CallOK(k)
  \/ \E k \in ReqIds, disable \in BOOLEAN : CallError(k, disable)
  \/ Tick
  \/ \E p \in Providers : ProbeFail(p)
  \/ \E p \in Providers : ProbeOK(p)
  \/ \E p \in Providers : Flip(p)

Spec == Init /\ [][Next]_vars

\* the steps of RefreshModels call i once it has been started
RefreshRun(i) ==
  \/ RefreshStart(i)
  \/ \E p \in Providers : RefreshVisit(i, p)
  \/ \E p \in Providers : RefreshFetchOK(i, p)
  \/ \E p \in Providers : RefreshFetchFail(i, p)
  \/ RefreshBuild(i)

\* Spec with the fairness the scheduling of the goroutines gives: the ticker
\* fires, a probe and a list_models call return (each has a deadline), and
\* a refresh that has been started goes on to its end.  The requests of
\* clients (HandleModels, Dispatch) and the availability of the upstreams
\* are not fair.
Fairness ==
  /\ WF_vars(Tick)
  /\ \A p \in Providers : WF_vars(ProbeFail(p) \/ ProbeOK(p))
  /\ \A i \in RefreshIds : WF_vars(RefreshRun(i))

SpecLive == Init /\ [][Next]_vars /\ Fairness

(***************************************************************************)
(* Load accounting, step by step.  incrementActiveCompletions and          *)
(* decrementActiveCompletions take no lock and use no atomic operation:    *)
(* the goroutines of concurrent chat completions read and write            *)
(* Provider.ActiveCompletions as separate steps.                           *)
(***************************************************************************)
\* bounds: the chat completions under way at a time, and the cap on the
\* absolute value of a counter
MaxCalls == 2
MaxActive == 2

CallIds == 1..MaxCalls

\* the variables that the actions of this part never change
othersLoad == <<StaticModels, Healthy, ModelMap, reachable, ref, req, hc, quarantined, http, stream, gate, drv, tools, mcp, script, cyc, shut, lock, stored>>

\* the index as RefreshModels builds it when every provider answers
BuiltModelMaps ==
  BuildModelMap(ClearModelMap(<<>>), ModelSet(Providers))

InitLoad ==
  /\ StaticModels \in {[p \in Providers |-> p \in S] : S \in StaticChoices}
  /\ Healthy = [p \in Providers |-> TRUE]
  /\ ActiveCompletions = [p \in Providers |-> 0]
  /\ ModelMap \in BuiltModelMaps
  /\ reachable = [p \in Providers |-> TRUE]
  /\ ref = [i \in RefreshIds |-> IdleRefresh]
  /\ req = [k \in ReqIds |-> IdleReq]
  /\ hc = {}
  /\ quarantined = [p \in Providers |-> FALSE]
  /\ call = [k \in CallIds |-> IdleCall]
  /\ http = NoResponse
  /\ stream = NoStream
  /\ gate = NoGate
  /\ drv = NoDriver
  /\ tools = NoTools
  /\ mcp = NoMCP
  /\ script = NoScript
  /\ cyc = NoCycle
  /\ shut = NoShutdown
  /\ lock = NoLock
  /\ stored = NoStored

\* CreateChatCompletion / CreateChatCompletionRaw: GetProviderForModel
SelectProvider(k, model) ==
  /\ call[k].pc = "idle"
  /\ LET sel == GetProviderForModel(ModelMap, ActiveCompletions, model)
     IN  IF sel.err # ""
         THEN UNCHANGED call
         ELSE call' = [call EXCEPT ![k] = [pc |-> "inc", model |-> model, prov |-> sel.name, val |-> 0]]
  /\ UNCHANGED <<othersLoad, ActiveCompletions>>

\* incrementActiveCompletions, provider.ActiveCompletions++: the read
IncrementRead(k) ==
  /\ call[k].pc = "inc"
  /\ call' = [call EXCEPT ![k].pc = "inc_write", ![k].val = ActiveCompletions[call[k].prov]]
  /\ UNCHANGED <<othersLoad, ActiveCompletions>>

\* incrementActiveCompletions, provider.ActiveCompletions++: the write; the
\* upstream call follows
IncrementWrite(k) ==
  /\ call[k].pc = "inc_write"
  /\ call[k].val + 1 <= MaxActive
  /\ ActiveCompletions' = [ActiveCompletions EXCEPT ![call[k].prov] = call[k].val + 1]
  /\ call' = [call EXCEPT ![k].pc = "call"]
  /\ UNCHANGED othersLoad

\* the upstream call has returned and the deferred
\* decrementActiveCompletions runs: the test provider.ActiveCompletions > 0
DecrementTest(k) ==
  /\ call[k].pc = "call"
  /\ call' = [call EXCEPT ![k] = IF ActiveCompletions[call[k].prov] > 0
                                  THEN [@ EXCEPT !.pc = "dec", !.val = ActiveCompletions[call[k].prov]]
                                  ELSE IdleCall]
  /\ UNCHANGED <<othersLoad, ActiveCompletions>>

\* decrementActiveCompletions, provider.ActiveCompletions--: the read of the
\* statement (a build can also keep the value the test has read)
DecrementRead(k) ==
  /\ call[k].pc = "dec"
  /\ call' = [call EXCEPT ![k].pc = "dec_write", ![k].val = ActiveCompletions[call[k].prov]]
  /\ UNCHANGED <<othersLoad, ActiveCompletions>>

\* decrementActiveCompletions, provider.ActiveCompletions--: the write
DecrementWrite(k) ==
  /\ call[k].pc \in {"dec", "dec_write"}
  /\ call[k].val - 1 >= -MaxActive
  /\ ActiveCompletions' = [ActiveCompletions EXCEPT ![call[k].prov] = call[k].val - 1]
  /\ call' = [call EXCEPT ![k] = IdleCall]
  /\ UNCHANGED othersLoad

NextLoad ==
  \/ \E k \in CallIds, m \in Models : SelectProvider(k, m)
  \/ \E k \in CallIds : IncrementRead(k)
  \/ \E k \in CallIds : IncrementWrite(k)
  \/ \E k \in CallIds : DecrementTest(k)
  \/ \E k \in CallIds : DecrementRead(k)
  \/ \E k \in CallIds : DecrementWrite(k)

SpecLoad == InitLoad /\ [][NextLoad]_vars

(***************************************************************************)
(* The chat completion handlers, each as one step: the answer the client   *)
(* gets and what the request does to the provider it was sent to.          *)
(***************************************************************************)
StatusOK == 200
StatusBadRequest == 400
StatusNotFound == 404
StatusInternalServerError == 500

\* the characters of the model ids
ModelChars ==
  ("m1" :> <<"m","1">>) @@ ("m2" :> <<"m","2">>) @@ ("m3" :> <<"m","3">>)

\* err.Error() of the errors of GetProviderForModel
SelectErrorText(err, model) ==
  IF err = "model_not_found"
  THEN ModelPrefix \o ModelChars[model] \o NotFoundInAnyProvider
  ELSE NoEnabledProvider \o ModelChars[model]

\* the variables that the actions of this part never change
othersHTTP == <<StaticModels, ActiveCompletions, ref, req, hc, call, stream, gate, drv, tools, mcp, script, cyc, shut, lock, stored>>

InitHTTP ==
  /\ StaticModels \in {[p \in Providers |-> p \in S] : S \in StaticChoices}
  /\ Healthy = [p \in Providers |-> TRUE]
  /\ ActiveCompletions = [p \in Providers |-> 0]
  /\ ModelMap \in BuiltModelMaps
  /\ reachable = [p \in Providers |-> TRUE]
  /\ ref = [i \in RefreshIds |-> IdleRefresh]
  /\ req = [k \in ReqIds |-> IdleReq]
  /\ hc = {}
  /\ quarantined = [p \in Providers |-> FALSE]
  /\ call = <<>>
  /\ http = NoResponse
  /\ stream = NoStream
  /\ gate = NoGate
  /\ drv = NoDriver
  /\ tools = NoTools
  /\ mcp = NoMCP
  /\ script = NoScript
  /\ cyc = NoCycle
  /\ shut = NoShutdown
  /\ lock = NoLock
  /\ stored = NoStored

\* HandleChatCompletions: readJSON fails
HandleChatCompletionsInvalid ==
  /\ http' = [path |-> "decode", model |-> "", prov |-> "", outcome |-> "bad_body",
              failed |-> TRUE, status |-> StatusBadRequest,
              upstream |-> NoUsage, usage |-> NoUsage]
  /\ UNCHANGED <<othersHTTP, Healthy, ModelMap, reachable, quarantined>>

\* what the call of OpenAIClientImpl.CreateChatCompletion to p can end with
ClientOutcomes(p) ==
  IF reachable[p] THEN {"ok"} \cup FatalIds \cup StatusIds \cup DecodeIds ELSE TransportIds

\* what the call of OpenAIClientImpl.CreateChatCompletionRaw to p can end
\* with: an answer of the upstream, whatever its status, is no error
RawOutcomes(p) ==
  IF reachable[p] THEN {"ok"} \cup FatalIds \cup StatusIds ELSE TransportIds

\* the status handleNonStreamingChatCompletion answers an error with
NonStreamingStatus(errStr) ==
  IF Contains(errStr, NotFound) THEN StatusNotFound ELSE StatusInternalServerError

\* handleNonStreamingChatCompletion with CreateChatCompletion: the counter
\* of the provider is incremented, and decremented again when it returns
handleNonStreamingChatCompletion(model, outcome) ==
  /\ LET sel == GetProviderForModel(ModelMap, ActiveCompletions, model)
     IN  IF sel.err # ""
         THEN /\ outcome = sel.err
              /\ http' = [path |-> "json", model |-> model, prov |-> "", outcome |-> outcome,
                          failed |-> TRUE,
                          status |-> NonStreamingStatus(SelectErrorText(sel.err, model)),
                          upstream |-> NoUsage, usage |-> NoUsage]
              /\ UNCHANGED <<Healthy, ModelMap, quarantined>>
         ELSE /\ outcome \in ClientOutcomes(sel.name)
              /\ IF outcome = "ok"
                 THEN /\ \E usage \in {NoUsage, UpstreamUsage}, prompt \in 1..MaxPrompt, choices \in 0..1 :
                           http' = [path |-> "json", model |-> model, prov |-> sel.name,
                                    outcome |-> outcome, failed |-> FALSE, status |-> StatusOK,
                                    upstream |-> usage,
                                    usage |-> CopyUsageBack(usage, prompt, choices * DeltaTokens)]
                      /\ UNCHANGED <<Healthy, ModelMap, quarantined>>
                 ELSE /\ IF isConnectionError(ErrorText(outcome))
                         THEN DisableProvider(sel.name)
                         ELSE UNCHANGED <<Healthy, ModelMap, quarantined>>
                      /\ http' = [path |-> "json", model |-> model, prov |-> sel.name,
                                  outcome |-> outcome, failed |-> TRUE,
                                  status |-> NonStreamingStatus(ErrorText(outcome)),
                                  upstream |-> NoUsage, usage |-> NoUsage]
  /\ UNCHANGED <<othersHTTP, reachable>>

\* handleStreamingChatCompletion with CreateChatCompletionRaw, up to the
\* status line: every error is answered with 500, and the answer of the
\* upstream is relayed under WriteHeader(http.StatusOK)
handleStreamingChatCompletion(model, outcome) ==
  /\ LET sel == GetProviderForModel(ModelMap, ActiveCompletions, model)
     IN  IF sel.err # ""
         THEN /\ outcome = sel.err
              /\ http' = [path |-> "sse", model |-> model, prov |-> "", outcome |-> outcome,
                          failed |-> TRUE, status |-> StatusInternalServerError,
                          upstream |-> NoUsage, usage |-> NoUsage]
              /\ UNCHANGED <<Healthy, ModelMap, quarantined>>
         ELSE /\ outcome \in RawOutcomes(sel.name)
              /\ IF outcome \in TransportIds
                 THEN /\ IF isConnectionError(ErrorText(outcome))
                         THEN DisableProvider(sel.name)
                         ELSE UNCHANGED <<Healthy, ModelMap, quarantined>>
                      /\ http' = [path |-> "sse", model |-> model, prov |-> sel.name,
                                  outcome |-> outcome, failed |-> TRUE,
                                  status |-> StatusInternalServerError,
                                  upstream |-> NoUsage, usage |-> NoUsage]
                 ELSE /\ http' = [path |-> "sse", model |-> model, prov |-> sel.name,
                                  outcome |-> outcome, failed |-> FALSE, status |-> StatusOK,
                                  upstream |-> NoUsage, usage |-> NoUsage]
                      /\ UNCHANGED <<Healthy, ModelMap, quarantined>>
  /\ UNCHANGED <<othersHTTP, reachable>>

\* the outcomes a request can have
Outcomes ==
  {"ok", "model_not_found", "no_enabled_provider"} \cup ErrorIds

NextHTTP ==
  \/ HandleChatCompletionsInvalid
  \/ \E m \in Models, o \in Outcomes : handleNonStreamingChatCompletion(m, o)
  \/ \E m \in Models, o \in Outcomes : handleStreamingChatCompletion(m, o)
  \/ \E p \in Providers : Flip(p)

SpecHTTP == InitHTTP /\ [][NextHTTP]_vars

(***************************************************************************)
(* Streaming pass-through: handleStreamingChatCompletion copies the body   *)
(* of the upstream to the client line by line and rewrites the chunk that  *)
(* ends the answer so that it carries a usage estimate.                    *)
(***************************************************************************)
\* the lines of an upstream body: a blank line, "data: [DONE]", a data line
\* that is no JSON, and the data lines with a JSON chunk (the number of its
\* choices, the finish_reason of the first one, its usage); long says that
\* the line is longer than bufio.MaxScanTokenSize, the most the scanner of
\* the handler takes (one content chunk of that size stands for them)
UpstreamLines ==
  {[kind |-> k, choices |-> 0, finish |-> "", usage |-> NoUsage, long |-> FALSE] : k \in {"blank", "done", "junk"}}
  \cup {[kind |-> "chunk", choices |-> 0, finish |-> "", usage |-> u, long |-> FALSE] : u \in {NoUsage, UpstreamUsage}}
  \cup {[kind |-> "chunk", choices |-> 1, finish |-> f, usage |-> u, long |-> FALSE] :
           f \in {"", "stop", "length"}, u \in {NoUsage, UpstreamUsage}}
  \cup {[kind |-> "chunk", choices |-> 1, finish |-> "", usage |-> NoUsage, long |-> TRUE]}

\* the upstream bodies of at most n lines
RECURSIVE Bodies(_)
Bodies(n) ==
  IF n = 0 THEN {<<>>}
  ELSE Bodies(n - 1) \cup {Append(b, l) : b \in {x \in Bodies(n - 1) : Len(x) = n - 1}, l \in UpstreamLines}

\* strings.HasPrefix(line, "data:") && !strings.HasPrefix(line, "data: [DONE]")
IsDataLine(line) ==
  line.kind \in {"junk", "chunk"}

\* json.Unmarshal of the data of a line into a ChatCompletionResponse
ParseChunk(line) ==
  IF line.kind = "chunk"
  THEN [ok |-> TRUE, choices |-> line.choices, finish |-> line.finish, usage |-> line.usage]
  ELSE [ok |-> FALSE, choices |-> 0, finish |-> "", usage |-> NoUsage]

\* "data: " followed by json.Marshal of the chunk
MarshalChunk(chunk) ==
  [kind |-> "chunk", choices |-> chunk.choices, finish |-> chunk.finish, usage |-> chunk.usage,
   long |-> FALSE]

\* the variables that the actions of this part never change
othersStream == <<StaticModels, Healthy, ActiveCompletions, ModelMap, reachable, ref, req, hc, quarantined, call, http, gate, drv, tools, mcp, script, cyc, shut, lock, stored>>

InitStream ==
  /\ StaticModels \in {[p \in Providers |-> p \in S] : S \in StaticChoices}
  /\ Healthy = [p \in Providers |-> TRUE]
  /\ ActiveCompletions = [p \in Providers |-> 0]
  /\ ModelMap \in BuiltModelMaps
  /\ reachable = [p \in Providers |-> TRUE]
  /\ ref = [i \in RefreshIds |-> IdleRefresh]
  /\ req = [k \in ReqIds |-> IdleReq]
  /\ hc = {}
  /\ quarantined = [p \in Providers |-> FALSE]
  /\ call = <<>>
  /\ http = NoResponse
  /\ stream = NoStream
  /\ gate = NoGate
  /\ drv = NoDriver
  /\ tools = NoTools
  /\ mcp = NoMCP
  /\ script = NoScript
  /\ cyc = NoCycle
  /\ shut = NoShutdown
  /\ lock = NoLock
  /\ stored = NoStored

\* handleStreamingChatCompletion up to the scanner loop: the prompt tokens
\* are counted, CreateChatCompletionRaw returns the answer of the upstream
\* (the counter of the provider is incremented and decremented again on its
\* return), and the status line is written
StreamOpen(body, prompt) ==
  /\ stream.pc = "idle"
  /\ stream' = [pc |-> "scan", body |-> body, in |-> body, out |-> <<>>,
                prompt |-> prompt, completion |-> 0]
  /\ UNCHANGED othersStream

\* one turn of the scanner loop (scanner.Scan returns a line): the line is
\* written to the client, rewritten with the usage estimate if it is a chunk
\* whose first choice has finish_reason "stop" and that has no usage
ScanLine ==
  /\ stream.pc = "scan"
  /\ stream.in # <<>>
  /\ ~Head(stream.in).long
  /\ LET line == Head(stream.in)
         chunk == ParseChunk(line)
         counted == IF IsDataLine(line) /\ chunk.ok /\ chunk.choices > 0
                    THEN stream.completion + DeltaTokens
                    ELSE stream.completion
         written == IF /\ IsDataLine(line) /\ chunk.ok /\ chunk.choices > 0
                       /\ chunk.finish = "stop" /\ chunk.usage = NoUsage
                    THEN MarshalChunk([chunk EXCEPT !.usage = InjectUsageIfMissing(stream.prompt, counted)])
                    ELSE line
     IN  stream' = [stream EXCEPT !.in = Tail(@), !.out = Append(@, written),
                                  !.completion = counted]
  /\ UNCHANGED othersStream

\* scanner.Scan returns false, because the body of the upstream is exhausted
\* or because its next line is too long for the scanner (the error of the
\* scanner is not looked at), and the handler returns
StreamEnd ==
  /\ stream.pc = "scan"
  /\ IF stream.in = <<>> THEN TRUE ELSE Head(stream.in).long
  /\ stream' = [stream EXCEPT !.pc = "done"]
  /\ UNCHANGED othersStream

NextStream ==
  \/ \E body \in Bodies(MaxLines), prompt \in 1..MaxPrompt : StreamOpen(body, prompt)
  \/ ScanLine
  \/ StreamEnd

SpecStream == InitStream /\ [][NextStream]_vars

(***************************************************************************)
(* The HTTP mux and the bearer-token middleware                            *)
(***************************************************************************)
StatusUnauthorized == 401

\* "Bearer "
BearerPrefix == <<"B","e","a","r","e","r"," ">>

\* config.Server.Token: "" (no token configured) or "sk"
Tokens == {<<>>, <<"s","k">>}

\* values of the Authorization header; <<>> is the absent header
\* (Header.Get answers "" for it)
AuthHeaders ==
  { <<>>,
    <<"B","e","a","r","e","r"," ","s","k">>,
    <<"B","e","a","r","e","r"," ","n","o">>,
    <<"B","e","a","r","e","r"," ","s","k"," ">>,
    <<"B","e","a","r","e","r"," "," ","s","k">>,
    <<"B","e","a","r","e","r"," ","s">>,
    <<"B","e","a","r","e","r"," ">>,
    <<"B","e","a","r","e","r"," ","B","e","a","r","e","r"," ","s","k">>,
    <<"b","e","a","r","e","r"," ","s","k">>,
    <<"B","a","s","i","c"," ","s","k">>,
    <<"s","k">> }

\* strings.HasPrefix
HasPrefix(s, prefix) ==
  /\ Len(s) >= Len(prefix)
  /\ SubSeq(s, 1, Len(prefix)) = prefix

\* strings.TrimPrefix
TrimPrefix(s, prefix) ==
  IF HasPrefix(s, prefix) THEN SubSeq(s, Len(prefix) + 1, Len(s)) ELSE s

\* Auth without the comparison of the token (a variant that accepts every
\* bearer header)
Auth_AnyBearer(token, authHeader) ==
  IF token = <<>> THEN TRUE
  ELSE IF authHeader = <<>> THEN FALSE
  ELSE HasPrefix(authHeader, BearerPrefix)

\* middleware.Auth: TRUE when the wrapped handler is called, FALSE when the
\* request is answered 401
Auth(token, authHeader) ==
  IF token = <<>> THEN TRUE
  ELSE IF authHeader = <<>> THEN FALSE
  ELSE IF ~HasPrefix(authHeader, BearerPrefix) THEN FALSE
  ELSE TrimPrefix(authHeader, BearerPrefix) = token

\* the optional services of NewRouter that are not nil
Services == {"responses", "conversations", "mcp"}

Methods == {"GET", "POST", "DELETE", "PUT"}

\* wildcard segments of the mux patterns
Wildcards == {"{id}", "{conversation_id}", "{item_id}"}

Route(method, pattern, handler, auth) ==
  [method |-> method, pattern |-> pattern, handler |-> handler, auth |-> auth]

\* the routes NewRouter registers before the catch-all; method "" is a
\* pattern without a method
Routes(services) ==
  { Route("", <<"v1","models">>, "HandleModels", TRUE),
    Route("", <<"v1","chat","completions">>, "HandleChatCompletions", TRUE),
    Route("", <<"v1","embeddings">>, "HandleEmbeddings", TRUE),
    Route("", <<"health">>, "HandleHealth", FALSE) }
  \cup (IF "responses" \in services
        THEN { Route("POST", <<"v1","responses">>, "HandleCreateResponse", TRUE),
               Route("GET", <<"v1","responses","{id}">>, "HandleGetResponse", TRUE),
               Route("DELETE", <<"v1","responses","{id}">>, "HandleDeleteResponse", TRUE),
               Route("GET", <<"v1","responses">>, "HandleListResponses", TRUE),
               Route("POST", <<"v1","responses","{id}","cancel">>, "HandleCancelResponse", TRUE),
               Route("POST", <<"v1","responses","compact">>, "HandleCompactResponses", TRUE),
               Route("GET", <<"v1","responses","{id}","input-items">>, "HandleUnsupported", TRUE),
               Route("GET", <<"v1","responses","{id}","input-tokens">>, "HandleUnsupported", TRUE) }
        ELSE {})
  \cup (IF "conversations" \in services
        THEN { Route("POST", <<"v1","conversations">>, "HandleCreateConversation", TRUE),
               Route("GET", <<"v1","conversations","{id}">>, "HandleGetConversation", TRUE),
               Route("POST", <<"v1","conversations","{id}">>, "HandleUpdateConversation", TRUE),
               Route("DELETE", <<"v1","conversations","{id}">>, "HandleDeleteConversation", TRUE),
               Route("GET", <<"v1","conversations","{conversation_id}","items">>, "HandleListItems", TRUE),
               Route("POST", <<"v1","conversations","{conversation_id}","items">>, "HandleCreateItems", TRUE),
               Route("GET", <<"v1","conversations","{conversation_id}","items","{item_id}">>, "HandleGetItem", TRUE),
               Route("DELETE", <<"v1","conversations","{conversation_id}","items","{item_id}">>, "HandleDeleteItem", TRUE) }
        ELSE {})
  \cup (IF "mcp" \in services
        THEN { Route("", <<"mcp">>, "HandleMCP", TRUE),
               Route("", <<"mcp","discovery">>, "HandleMCPDiscovery", TRUE) }
        ELSE {})

\* the pattern "/" with router.HandleCatchAll, registered without auth
CatchAll == Route("", <<>>, "HandleCatchAll", FALSE)

\* request paths, as their segments
Paths ==
  { <<>>, <<"health">>, <<"admin">>, <<"v1">>,
    <<"v1","models">>, <<"v1","chat","completions">>, <<"v1","embeddings">>,
    <<"v1","responses">>, <<"v1","responses","r1">>, <<"v1","responses","compact">>,
    <<"v1","responses","r1","cancel">>, <<"v1","responses","r1","input-items">>,
    <<"v1","responses","r1","input-tokens">>,
    <<"v1","conversations">>, <<"v1","conversations","c1">>,
    <<"v1","conversations","c1","items">>, <<"v1","conversations","c1","items","i1">>,
    <<"mcp">>, <<"mcp","discovery">> }

\* a pattern without a trailing slash matches the paths with the same
\* segments, a wildcard matching one segment
MatchesPattern(route, method, path) ==
  /\ route.method \in {"", method}
  /\ Len(route.pattern) = Len(path)
  /\ \A i \in 1..Len(path) : route.pattern[i] \in Wildcards \cup {path[i]}

\* number of literal segments of a pattern
Literals(pattern) == Cardinality({i \in 1..Len(pattern) : pattern[i] \notin Wildcards})

\* ServeMux: the most specific matching pattern serves the request, and "/"
\* matches whatever nothing else matches
MatchRoute(services, method, path) ==
  LET matching == {r \in Routes(services) : MatchesPattern(r, method, path)}
  IN  IF matching = {} THEN CatchAll
      ELSE CHOOSE r \in matching :
             \A o \in matching : Literals(o.pattern) <= Literals(r.pattern)

\* what the handlers answer once they run
HandlerStatuses == {StatusOK, StatusBadRequest, StatusNotFound, StatusInternalServerError}

\* the router after its first refresh, with no request served yet
RegistryIdle ==
  /\ StaticModels \in {[p \in Providers |-> p \in S] : S \in StaticChoices}
  /\ Healthy = [p \in Providers |-> TRUE]
  /\ ActiveCompletions = [p \in Providers |-> 0]
  /\ ModelMap \in BuiltModelMaps
  /\ reachable = [p \in Providers |-> TRUE]
  /\ ref = [i \in RefreshIds |-> IdleRefresh]
  /\ req = [k \in ReqIds |-> IdleReq]
  /\ hc = {}
  /\ quarantined = [p \in Providers |-> FALSE]
  /\ call = <<>>
  /\ http = NoResponse
  /\ stream = NoStream

\* the same, with no quarantine sequence, no shutdown and no locked call
ServingIdle ==
  /\ RegistryIdle
  /\ cyc = NoCycle
  /\ shut = NoShutdown
  /\ lock = NoLock
  /\ stored = NoStored

InitAuth ==
  /\ ServingIdle
  /\ \E token \in Tokens, services \in SUBSET Services :
        gate = [NoGate EXCEPT !.token = token, !.services = services]
  /\ drv = NoDriver
  /\ tools = NoTools
  /\ mcp = NoMCP
  /\ script = NoScript

\* one request through router.mux; the mux and the middleware keep nothing
\* from one request to the next, so a behaviour serves a single request
ServeHTTP ==
  /\ gate.method = ""
  /\ \E method \in Methods, path \in Paths, header \in AuthHeaders, st \in HandlerStatuses :
    LET route == MatchRoute(gate.services, method, path)
        pass  == ~route.auth \/ Auth(gate.token, header)
    IN  /\ st = StatusOK \/ (pass /\ route.handler \notin {"HandleHealth", "HandleCatchAll"})
        /\ gate' = [gate EXCEPT
                      !.method = method, !.path = path, !.header = header,
                      !.matched = route.handler, !.ran = pass,
                      !.status = IF ~pass THEN StatusUnauthorized
                                 ELSE IF route.handler = "HandleCatchAll" THEN StatusNotFound
                                 ELSE st]
        /\ UNCHANGED <<servingVars, drv, tools, mcp, script>>

NextAuth == ServeHTTP

SpecAuth == InitAuth /\ [][NextAuth]_vars

(***************************************************************************)
(* The tool-calling driver (AILibrary.CreateChatCompletionWithTools)       *)
(***************************************************************************)
MaxToolCallIterations == 20

\* the loop "for _, tc := range message.ToolCalls" that keeps the calls of
\* the two tools
RECURSIVE validToolCalls(_)
validToolCalls(toolCalls) ==
  IF toolCalls = <<>> THEN <<>>
  ELSE IF Head(toolCalls).name \notin ToolNames THEN validToolCalls(Tail(toolCalls))
  ELSE <<Head(toolCalls)>> \o validToolCalls(Tail(toolCalls))

\* a driver that hands every valid tool call of the response to
\* ExecuteToolCalls (a variant)
singleToolCall_Batch(valid) == valid

\* singleToolCall := []openai.ToolCall{validToolCalls[0]}
singleToolCall(valid) == <<valid[1]>>

\* a driver that only counts to three (a variant)
LoopDetected_ThreeOnly(recentToolCalls, lastToolCallKey, key) ==
  recentToolCalls[key] >= 3

\* a driver that never detects a loop (a variant)
LoopDetected_Never(recentToolCalls, lastToolCallKey, key) == FALSE

\* the test of the driver for a model that loops
LoopDetected(recentToolCalls, lastToolCallKey, key) ==
  \/ recentToolCalls[key] >= 3
  \/ (key = lastToolCallKey /\ recentToolCalls[key] >= 2)

\* a for loop that runs once more (a variant)
LoopContinues_OneMore(iteration) == iteration <= MaxToolCallIterations

\* the condition of the for loop
LoopContinues(iteration) == iteration < MaxToolCallIterations

\* position of a call in a fixed order of the calls of the two tools
CallIndex(tc) == 2 * (tc.args - 1) + (IF tc.name = "tool_search" THEN 1 ELSE 2)

\* The driver compares keys only for equality, so of the calls it has not
\* seen yet the model emits the first in the fixed order: every other choice
\* is a renaming of this one.
UpToRenaming(recentToolCalls, toolCalls) ==
  LET valid == validToolCalls(toolCalls)
  IN  valid # <<>> =>
        \/ recentToolCalls[toolCallKey(valid[1].name, valid[1].args)] > 0
        \/ \A k \in Keys :
              CallIndex([name |-> k[1], args |-> k[2]]) < CallIndex(valid[1])
                 => recentToolCalls[k] > 0

\* what ai.router.CreateChatCompletion answers in the loop: an error, or a
\* response with or without choices and with up to two tool calls (a made-up
\* call before or after a call, or the same call twice)
Responses ==
  {[err |-> TRUE, choices |-> 0, toolCalls |-> <<>>],
   [err |-> FALSE, choices |-> 0, toolCalls |-> <<>>]}
  \cup {[err |-> FALSE, choices |-> 1, toolCalls |-> tcs] :
          tcs \in {<<>>} \cup {<<a>> : a \in ToolCalls}
                   \cup {<<Hallucinated, a>> : a \in ToolCalls}
                   \cup {<<a, a>> : a \in ToolCalls}
                   \cup {<<a, Hallucinated>> : a \in ToolCalls}}

InitDriver ==
  /\ ServingIdle
  /\ ModelMap = CHOOSE m \in BuiltModelMaps : TRUE
  /\ gate = NoGate
  /\ drv = NoDriver
  /\ tools = NoTools
  /\ mcp = NoMCP
  /\ script = NoScript

\* entry of CreateChatCompletionWithTools, with or without an MCP server
DriverStart ==
  /\ drv.pc = "idle"
  /\ \E server \in BOOLEAN :
        drv' = [drv EXCEPT !.pc = "complete", !.mcpServer = server, !.tools = server]
  /\ UNCHANGED <<servingVars, gate, tools, mcp, script>>

\* one completion of the loop and what the driver does with the response, up
\* to the return or to the call of the tool
DriverComplete ==
  /\ drv.pc = "complete"
  /\ LoopContinues(drv.iteration)
  /\ \E response \in Responses :
       /\ UpToRenaming(drv.recentToolCalls, response.toolCalls)
       /\ LET valid == validToolCalls(response.toolCalls)
              tc    == valid[1]
              key   == toolCallKey(tc.name, tc.args)
              count == [drv.recentToolCalls EXCEPT ![key] = @ + 1]
              asked == [drv EXCEPT
                          !.completions = @ + 1,
                          !.toolCalls = IF drv.history THEN response.toolCalls ELSE <<>>,
                          !.turn1 = IF drv.completions = 0 THEN response.toolCalls
                                    ELSE IF @ = response.toolCalls /\ drv.agree THEN @
                                    ELSE <<>>,
                          !.agree = ~response.err /\ response.choices > 0
                                    /\ Len(response.toolCalls) = 1
                                    /\ (drv.completions = 0
                                          \/ (drv.agree /\ drv.turn1 = response.toolCalls))]
          IN  IF response.err
              THEN drv' = [asked EXCEPT !.pc = "done", !.result = "error"]
              ELSE IF ~drv.mcpServer \/ response.choices = 0 \/ response.toolCalls = <<>>
              THEN drv' = [asked EXCEPT !.pc = "done", !.result = "response"]
              ELSE IF valid = <<>>
              THEN drv' = [asked EXCEPT !.pc = "done", !.result = "response"]
              ELSE IF LoopDetected(count, drv.lastToolCallKey, key)
              THEN drv' = [asked EXCEPT !.pc = "fallback", !.recentToolCalls = count,
                                        !.systemMessages = @ + 1, !.tools = FALSE]
              ELSE drv' = [asked EXCEPT !.pc = "execute", !.recentToolCalls = count,
                                        !.lastToolCallKey = key,
                                        !.singleToolCall = singleToolCall(valid)]
  /\ UNCHANGED <<servingVars, gate, tools, mcp, script>>

\* the completion without tools that follows the fallback system message
DriverFallback ==
  /\ drv.pc = "fallback"
  /\ \E err \in BOOLEAN :
        drv' = [drv EXCEPT !.pc = "done", !.fallbacks = @ + 1,
                           !.result = IF err THEN "error" ELSE "fallback",
                           !.toolCalls = <<>>]
  /\ UNCHANGED <<servingVars, gate, tools, mcp, script>>

\* openai.ExecuteToolCalls with the single tool call, the end of the
\* iteration and, after the last iteration, the return of the error
DriverExecute ==
  /\ drv.pc = "execute"
  /\ \E err \in BOOLEAN :
       LET calls == drv.singleToolCall
           ran == [drv EXCEPT
                     !.executed = [k \in Keys |->
                        @[k] + Cardinality({i \in 1..Len(calls) :
                                              toolCallKey(calls[i].name, calls[i].args) = k})],
                     !.toolCalls = <<>>, !.singleToolCall = <<>>,
                     !.prevExecuted = IF drv.history
                                      THEN toolCallKey(calls[Len(calls)].name, calls[Len(calls)].args)
                                      ELSE NoKey]
       IN  IF err
           THEN drv' = [ran EXCEPT !.pc = "done", !.result = "error"]
           ELSE IF LoopContinues(drv.iteration + 1)
           THEN drv' = [ran EXCEPT !.pc = "complete", !.iteration = @ + 1]
           ELSE drv' = [ran EXCEPT !.pc = "done", !.iteration = @ + 1,
                                   !.result = "max_tool_iterations"]
  /\ UNCHANGED <<servingVars, gate, tools, mcp, script>>

NextDriver ==
  \/ DriverStart
  \/ DriverComplete
  \/ DriverFallback
  \/ DriverExecute

SpecDriver == InitDriver /\ [][NextDriver]_vars

\* the same driver with a history of the response of the current iteration:
\* drv.toolCalls holds the tool calls of the response from the completion to
\* the end of the iteration, and drv.prevExecuted the key of the call that
\* was handed to ExecuteToolCalls last
InitDriverHistory ==
  /\ ServingIdle
  /\ ModelMap = CHOOSE m \in BuiltModelMaps : TRUE
  /\ gate = NoGate
  /\ drv = [NoDriver EXCEPT !.history = TRUE]
  /\ tools = NoTools
  /\ mcp = NoMCP
  /\ script = NoScript

SpecDriverHistory == InitDriverHistory /\ [][NextDriver]_vars

\* the calls of the driver return: the completions are requests to a provider
\* with a timeout, the tools run under a timeout
SpecDriverLive == SpecDriver /\ WF_vars(NextDriver)

(***************************************************************************)
(* Running a tool script (MCPServer.executeScriptTool, MCPLibrary)         *)
(***************************************************************************)
\* number of statements of a script
MaxStmts == 3

\* the strings the scripts print, return and raise
Texts == {<<"a">>, <<"b">>}

\* "\nError: "
NewlineErrorPrefix == <<"\n","E","r","r","o","r",":"," ">>

\* "Error: "
ErrorPrefix == <<"E","r","r","o","r",":"," ">>

\* "Result: "
ResultPrefix == <<"R","e","s","u","l","t",":"," ">>

\* a missing string: the nil result slot, no error, a null value
Nothing == [set |-> FALSE, text |-> <<>>]

Some(text) == [set |-> TRUE, text |-> text]

\* the statements of a script: print(v), llmr.mcp.return_string(v),
\* llmr.mcp.return_object(v), a statement that fails with the message v, an
\* expression of value v
Stmts ==
  [op : {"print", "return_object", "raise", "expr"}, arg : Texts]
  \cup [op : {"return_string"}, arg : Texts \cup {<<>>}]

\* the scripts: sequences of statements, and whether the text parses
Scripts ==
  [parses : BOOLEAN, stmts : UNION {[1..n -> Stmts] : n \in 0..MaxStmts}]

\* the message of the parser for a script that does not parse
SyntaxError == <<"s","y","n","t","a","x">>

\* json.Marshal of a string
MarshalString(v) == <<"\"">> \o v \o <<"\"">>

\* object.Inspect of a string value
Inspect(v) == v

\* mutant of SetResult: the slot keeps the first result it was given
SetResult_Once(mcpResult, result) ==
  IF mcpResult.set THEN mcpResult ELSE Some(result)

\* MCPLibrary.SetResult: m.result = &result
SetResult(mcpResult, result) ==
  Some(result)

\* the text a variant of executeScriptTool answers that reports the error
\* before it looks at the result slot
ToolResponseText_ErrorFirst(output, err, value, mcpResult) ==
  IF err.set THEN output \o NewlineErrorPrefix \o err.text
  ELSE IF mcpResult.set THEN mcpResult.text
  ELSE output

\* the text a variant of executeScriptTool answers that leaves the error out
ToolResponseText_NoError(output, err, value, mcpResult) ==
  IF mcpResult.set THEN mcpResult.text ELSE output

\* the text executeScriptTool answers after env.Eval
ToolResponseText(output, err, value, mcpResult) ==
  IF mcpResult.set THEN mcpResult.text
  ELSE output
       \o (IF err.set THEN NewlineErrorPrefix \o err.text
           ELSE IF value.set
           THEN (IF output # <<>> THEN <<"\n">> ELSE <<>>) \o ResultPrefix \o Inspect(value.text)
           ELSE <<>>)

InitScript ==
  /\ ServingIdle
  /\ ModelMap = CHOOSE m \in BuiltModelMaps : TRUE
  /\ gate = NoGate
  /\ drv = NoDriver
  /\ tools = NoTools
  /\ mcp = NoMCP
  /\ script = NoScript

\* executeScriptTool up to env.Eval: a new environment and a new MCPLibrary
\* with an empty result slot; a script that does not parse fails at once
ScriptBegin ==
  /\ script.pc = "idle"
  /\ \E s \in Scripts :
        script' = [NoScript EXCEPT
                     !.pc = "eval", !.code = s.stmts,
                     !.err = IF s.parses THEN Nothing ELSE Some(SyntaxError)]
  /\ UNCHANGED <<servingVars, gate, drv, tools, mcp>>

\* env.Eval runs the next statement of the script
ScriptStatement ==
  /\ script.pc = "eval"
  /\ ~script.err.set
  /\ script.code # <<>>
  /\ LET stmt == Head(script.code)
         next == [script EXCEPT !.code = Tail(@)]
     IN  script' =
           CASE stmt.op = "print" ->
                  [next EXCEPT !.output = @ \o stmt.arg \o <<"\n">>, !.value = Nothing]
             [] stmt.op = "return_string" ->
                  [next EXCEPT !.mcpResult = SetResult(@, stmt.arg), !.value = Some(stmt.arg),
                               !.returned = @ \cup {stmt.arg},
                               !.lastReturn = Some(stmt.arg),
                               !.returns = Append(@, stmt)]
             [] stmt.op = "return_object" ->
                  [next EXCEPT !.mcpResult = SetResult(@, MarshalString(stmt.arg)),
                               !.value = Some(MarshalString(stmt.arg)),
                               !.lastReturn = Nothing,
                               !.returns = Append(@, stmt)]
             [] stmt.op = "raise" ->
                  [next EXCEPT !.err = Some(stmt.arg), !.value = Nothing]
             [] stmt.op = "expr" ->
                  [next EXCEPT !.value = Some(stmt.arg)]
  /\ UNCHANGED <<servingVars, gate, drv, tools, mcp>>

\* env.Eval is over, with or without an error: executeScriptTool builds the
\* tool response; it has no error return
ScriptRespond ==
  /\ script.pc = "eval"
  /\ script.err.set \/ script.code = <<>>
  /\ script' = [script EXCEPT
                  !.pc = "done",
                  !.response = [error |-> FALSE,
                                text |-> ToolResponseText(script.output, script.err,
                                                          script.value, script.mcpResult)]]
  /\ UNCHANGED <<servingVars, gate, drv, tools, mcp>>

NextScript ==
  \/ ScriptBegin
  \/ ScriptStatement
  \/ ScriptRespond

SpecScript == InitScript /\ [][NextScript]_vars

(***************************************************************************)
(* The script tool providers and the MCP binding                           *)
(* (ScriptToolProvider, MCPServer.HandleRequest)                           *)
(***************************************************************************)
\* values of the visibility field of a manifest: not set, the two the
\* providers know, and one they do not know
Visibilities == {"", "native", "ondemand", "hidden"}

\* the script files: what the script returns when it runs
Contents == {"v1", "v2"}

\* a tool directory with a tool.toml that parses: the name field ("" when
\* the manifest has none), visibility, keywords, whether the script file the
\* manifest names exists, and the script
Manifests ==
  {m \in [present : {TRUE}, name : {"", "t"}, visibility : Visibilities,
          keywords : {{"k"}}, script : BOOLEAN, content : Contents \cup {""}] :
     m.script <=> m.content # ""}

\* the names tools can have
ToolIds == Dirs \cup {"t"}

\* cfg.Name, the name of the directory when the manifest has none
cfgName(d, m) == IF m.name = "" THEN d ELSE m.name

\* no entry of the map tools
NoCfg == [exists |-> FALSE, visibility |-> "", keywords |-> {}]

\* the walk of scanTools over the directories from position i on: an entry
\* per valid manifest, a later directory replacing an earlier one of the
\* same name
RECURSIVE ScanFrom(_, _, _)
ScanFrom(fs, i, found) ==
  IF i > Len(DirSeq) THEN found
  ELSE LET d == DirSeq[i]
           m == fs[d]
       IN  IF m.present /\ m.script
           THEN ScanFrom(fs, i + 1,
                  [found EXCEPT ![cfgName(d, m)] =
                     [exists |-> TRUE, visibility |-> m.visibility, keywords |-> m.keywords]])
           ELSE ScanFrom(fs, i + 1, found)

\* a provider that scanned the tools root when the server started and
\* answers that scan (a variant)
scanTools_AtStart(fs) == ScanFrom(NoTools, 1, [n \in ToolIds |-> NoCfg])

\* ScriptToolProvider.scanTools
scanTools(fs) == ScanFrom(fs, 1, [n \in ToolIds |-> NoCfg])

\* mutant of GetTools: a manifest without visibility is not taken as native
GetTools_NoDefault(fs, visibility) ==
  LET scanned == scanTools(fs)
  IN  {n \in ToolIds : scanned[n].exists /\ scanned[n].visibility = visibility}

\* ScriptToolProvider.GetTools of the provider with this visibility: the
\* names of the tools it returns
GetTools(fs, visibility) ==
  LET scanned == scanTools(fs)
      toolVisibility(n) == IF scanned[n].visibility = "" THEN "native"
                           ELSE scanned[n].visibility
  IN  {n \in ToolIds : scanned[n].exists /\ toolVisibility(n) = visibility}

\* the second walk of ExecuteTool: the first directory whose manifest has
\* this name, "" when there is none
RECURSIVE FindScriptDir(_, _, _)
FindScriptDir(fs, name, i) ==
  IF i > Len(DirSeq) THEN ""
  ELSE IF fs[DirSeq[i]].present /\ cfgName(DirSeq[i], fs[DirSeq[i]]) = name THEN DirSeq[i]
  ELSE FindScriptDir(fs, name, i + 1)

NotRun(status) == [status |-> status, content |-> ""]

\* ScriptToolProvider.ExecuteTool of the provider with this visibility
ExecuteTool(fs, visibility, name) ==
  LET scanned == scanTools(fs)
      toolVisibility == IF scanned[name].visibility = "" THEN "native"
                        ELSE scanned[name].visibility
      dir == FindScriptDir(fs, name, 1)
  IN  IF name \notin ToolIds THEN NotRun("unknown_tool")
      ELSE IF ~scanned[name].exists THEN NotRun("unknown_tool")
      ELSE IF toolVisibility # visibility THEN NotRun("unknown_tool")
      ELSE IF dir = "" THEN NotRun("unknown_tool")
      ELSE IF ~fs[dir].script THEN NotRun("read_error")
      ELSE [status |-> "ran", content |-> fs[dir].content]

\* a binding that attaches the on-demand provider to every request (a variant)
Attached_Always(onDemandTools) == TRUE

\* a binding that never attaches the on-demand provider (a variant)
Attached_Never(onDemandTools) == FALSE

\* HandleRequest: the on-demand provider is attached when it has tools
Attached(onDemandTools) == onDemandTools # {}

\* the tool registered with the server by registerBuiltinTools
Builtins == {"execute_code"}

\* the two tools of the MCP library for on-demand tools
DiscoveryTools == {"tool_search", "execute_tool"}

Modes == {"normal", "discovery"}

\* the queries of tool_search
Queries == {"", "k", "zz"}

\* the keywords of the tools of this provider
KeywordsOf(fs, n) == IF n \in ToolIds THEN scanTools(fs)[n].keywords ELSE {}

\* tool_search of the MCP library: the empty query matches every tool, any
\* other query the tools with that keyword or name
Matches(fs, n, query) == query = "" \/ query = n \/ query \in KeywordsOf(fs, n)

\* tools/list of the MCP library
ListTools(mode, native, attached) ==
  IF mode = "discovery" THEN DiscoveryTools
  ELSE Builtins \cup native \cup (IF attached THEN DiscoveryTools ELSE {})

\* the tools tool_search of the MCP library looks through
Searchable(mode, native, onDemand, attached) ==
  IF mode = "discovery"
  THEN Builtins \cup native \cup (IF attached THEN onDemand ELSE {})
  ELSE IF attached THEN onDemand ELSE {}

InitMCP ==
  /\ ServingIdle
  /\ ModelMap = CHOOSE m \in BuiltModelMaps : TRUE
  /\ gate = NoGate
  /\ drv = NoDriver
  /\ tools = NoTools
  /\ mcp = NoMCP
  /\ script = NoScript

\* a tool directory is written: added, or its manifest or script modified;
\* the answer of the request served before is with the client, and the
\* model only remembers that there was one
WriteTool ==
  /\ \E d \in Dirs, m \in Manifests :
        /\ tools[d] # m
        /\ tools' = [tools EXCEPT ![d] = m]
  /\ mcp' = [NoMCP EXCEPT !.stale = mcp.stale \/ mcp.method # "none"]
  /\ UNCHANGED <<servingVars, gate, drv, script>>

\* a tool directory is removed
RemoveTool ==
  /\ \E d \in Dirs :
        /\ tools[d].present
        /\ tools' = [tools EXCEPT ![d] = Absent]
  /\ mcp' = [NoMCP EXCEPT !.stale = mcp.stale \/ mcp.method # "none"]
  /\ UNCHANGED <<servingVars, gate, drv, script>>

\* MCPServer.HandleRequest and the request the MCP library serves with the
\* providers of the context (tools/list, or a call of tool_search or of
\* execute_tool): the answer
HandleRequest(mode, method, arg) ==
  LET native        == GetTools(tools, "native")
      onDemandTools == GetTools(tools, "ondemand")
      attached      == Attached(onDemandTools)
      offered       == method = "tools/list" \/ mode = "discovery" \/ attached
      answer        == [NoMCP EXCEPT !.mode = mode, !.method = method, !.arg = arg,
                                     !.attached = attached, !.afterChange = mcp.stale]
  IN  IF method = "tools/list"
      THEN [answer EXCEPT !.list = ListTools(mode, native, attached)]
      ELSE IF ~offered
      THEN [answer EXCEPT !.run = NotRun("unknown_tool")]
      ELSE IF method = "tool_search"
      THEN [answer EXCEPT
              !.found = {n \in Searchable(mode, native, onDemandTools, attached) :
                            Matches(tools, n, arg)}]
      ELSE IF arg \in Builtins /\ mode = "discovery"
      THEN [answer EXCEPT !.run = [status |-> "ran", content |-> "code"]]
      ELSE IF attached /\ ExecuteTool(tools, "ondemand", arg).status # "unknown_tool"
      THEN [answer EXCEPT !.run = ExecuteTool(tools, "ondemand", arg)]
      ELSE IF mode = "discovery"
      THEN [answer EXCEPT !.run = ExecuteTool(tools, "native", arg)]
      ELSE [answer EXCEPT !.run = NotRun("unknown_tool")]

\* a tools/list request
ToolsList ==
  /\ \E mode \in Modes : mcp' = HandleRequest(mode, "tools/list", "")
  /\ UNCHANGED <<servingVars, gate, drv, tools, script>>

\* a call of tool_search
ToolSearch ==
  /\ \E mode \in Modes, query \in Queries : mcp' = HandleRequest(mode, "tool_search", query)
  /\ UNCHANGED <<servingVars, gate, drv, tools, script>>

\* a call of execute_tool
ExecuteToolCall ==
  /\ \E mode \in Modes, name \in ToolIds \cup Builtins \cup {"zz"} :
        mcp' = HandleRequest(mode, "execute_tool", name)
  /\ UNCHANGED <<servingVars, gate, drv, tools, script>>

NextMCP ==
  \/ WriteTool
  \/ RemoveTool
  \/ ToolsList
  \/ ToolSearch
  \/ ExecuteToolCall

SpecMCP == InitMCP /\ [][NextMCP]_vars

(***************************************************************************)
(* A quarantine, a re-admission and a refresh one after the other, with    *)
(* nothing else going on: the router is constructed, RefreshModels runs    *)
(* once, DisableProvider(p) and EnableProvider(p) are called, and          *)
(* RefreshModels runs again.  The upstreams that answer stay the same.     *)
(***************************************************************************)
\* the index as a reader sees it up to the order of the names of an entry
IndexSets(map) ==
  [m \in DOMAIN map |-> Range(map[m])]

\* the RefreshModels call of this part
CycleRefreshId == 1

InitCycle ==
  /\ StaticModels \in [Providers -> BOOLEAN]
  /\ Healthy = [p \in Providers |-> TRUE]
  /\ ActiveCompletions = [p \in Providers |-> 0]
  /\ ModelMap = [m \in {} |-> <<>>]
  /\ reachable \in [Providers -> BOOLEAN]
  /\ ref = [i \in RefreshIds |-> IdleRefresh]
  /\ req = [k \in ReqIds |-> IdleReq]
  /\ hc = {}
  /\ quarantined = [p \in Providers |-> FALSE]
  /\ call = <<>>
  /\ http = NoResponse
  /\ stream = NoStream
  /\ gate = NoGate
  /\ drv = NoDriver
  /\ tools = NoTools
  /\ mcp = NoMCP
  /\ script = NoScript
  /\ cyc = NoCycle
  /\ shut = NoShutdown
  /\ lock = NoLock
  /\ stored = NoStored

\* the first RefreshModels call after NewRouter begins
CycleFresh ==
  /\ cyc.pc = "idle"
  /\ RefreshBegin(CycleRefreshId)
  /\ cyc' = [cyc EXCEPT !.pc = "fresh"]
  /\ UNCHANGED <<StaticModels, Healthy, ActiveCompletions, reachable, req, hc, quarantined,
                 call, http, stream, gate, drv, tools, mcp, script, shut, lock, stored>>

\* a step of the RefreshModels call that is under way
CycleRefreshStep ==
  \/ \E p \in Providers : RefreshVisit(CycleRefreshId, p)
  \/ \E p \in Providers : RefreshFetchOK(CycleRefreshId, p)
  \/ \E p \in Providers : RefreshFetchFail(CycleRefreshId, p)
  \/ RefreshBuild(CycleRefreshId)

\* DisableProvider(p) once the first refresh is over
CycleQuarantine(p) ==
  /\ cyc.pc = "fresh"
  /\ ref[CycleRefreshId].pc = "idle"
  /\ DisableProvider(p)
  /\ cyc' = [pc |-> "quarantined", p |-> p, fresh |-> IndexSets(ModelMap)]
  /\ UNCHANGED <<StaticModels, ActiveCompletions, reachable, ref, req, hc,
                 call, http, stream, gate, drv, tools, mcp, script, shut, lock, stored>>

\* EnableProvider(p) for the provider that was quarantined
CycleReadmit ==
  /\ cyc.pc = "quarantined"
  /\ IF ~Healthy[cyc.p] THEN EnableProvider(cyc.p) ELSE UNCHANGED Healthy
  /\ cyc' = [cyc EXCEPT !.pc = "readmitted"]
  /\ UNCHANGED <<StaticModels, ActiveCompletions, ModelMap, reachable, ref, req, hc, quarantined,
                 call, http, stream, gate, drv, tools, mcp, script, shut, lock, stored>>

\* the RefreshModels call after the re-admission begins
CycleRefresh ==
  /\ cyc.pc = "readmitted"
  /\ RefreshBegin(CycleRefreshId)
  /\ cyc' = [cyc EXCEPT !.pc = "refresh"]
  /\ UNCHANGED <<StaticModels, Healthy, ActiveCompletions, reachable, req, hc, quarantined,
                 call, http, stream, gate, drv, tools, mcp, script, shut, lock, stored>>

NextCycle ==
  \/ CycleFresh
  \/ CycleRefreshStep
  \/ \E p \in Providers : CycleQuarantine(p)
  \/ CycleReadmit
  \/ CycleRefresh

SpecCycle == InitCycle /\ [][NextCycle]_vars

(***************************************************************************)
(* Shutdown.  Shutdown and StopBackgroundTasks both run their closing      *)
(* function through Router.shutdownOnce and then wait on Router.wg, which  *)
(* counts the health check task.  sync.Once runs the function of the first *)
(* caller; a caller that arrives while it runs waits for it to return, and *)
(* a caller that arrives later returns at once.                            *)
(***************************************************************************)
\* bound: the calls of Shutdown and StopBackgroundTasks that are made
MaxCallers == 3

CallerIds == 1..MaxCallers

ShutdownKinds == {"Shutdown", "StopBackgroundTasks"}

\* mutant of OnceFresh: the function runs again for a caller that arrives
\* after it has returned
OnceFresh_EveryCall(once) ==
  once # "running"

\* sync.Once.Do: the function is run by the first caller only
OnceFresh(once) ==
  once = "new"

\* the router is constructed; StartBackgroundTasks has been called or not
InitShutdown ==
  /\ RegistryIdle
  /\ cyc = NoCycle
  /\ lock = NoLock
  /\ stored = NoStored
  /\ gate = NoGate
  /\ drv = NoDriver
  /\ tools = NoTools
  /\ mcp = NoMCP
  /\ script = NoScript
  /\ \E started \in BOOLEAN :
        shut = [NoShutdown EXCEPT
                  !.wg = IF started THEN 1 ELSE 0,
                  !.task = IF started THEN "running" ELSE "none",
                  !.callers = [c \in CallerIds |-> [kind |-> "", pc |-> "idle"]]]

\* the variables that the actions of this part never change
othersShutdown == <<StaticModels, Healthy, ActiveCompletions, ModelMap, reachable, ref, req, hc, quarantined, call, http, stream, gate, drv, tools, mcp, script, cyc, lock, stored>>

\* a goroutine calls Shutdown or StopBackgroundTasks
ShutdownCall(c, kind) ==
  /\ shut.callers[c].pc = "idle"
  /\ shut' = [shut EXCEPT !.callers[c] = [kind |-> kind, pc |-> "once"]]
  /\ UNCHANGED othersShutdown

\* shutdownOnce.Do: the caller is the first one and runs the function
OnceEnter(c) ==
  /\ shut.callers[c].pc = "once"
  /\ OnceFresh(shut.once)
  /\ shut' = [shut EXCEPT !.once = "running", !.callers[c].pc = "closing"]
  /\ UNCHANGED othersShutdown

\* shutdownOnce.Do: the function has been run, Do returns at once
OnceSkip(c) ==
  /\ shut.callers[c].pc = "once"
  /\ shut.once = "done"
  /\ shut' = [shut EXCEPT !.callers[c].pc = "wait"]
  /\ UNCHANGED othersShutdown

\* close(r.shutdownChan)
CloseChan(c) ==
  /\ shut.callers[c].pc = "closing"
  /\ shut' = [shut EXCEPT !.closed = @ + 1, !.callers[c].pc = "closed"]
  /\ UNCHANGED othersShutdown

\* the rest of the function (Shutdown closes the services), and Do returns
OnceLeave(c) ==
  /\ shut.callers[c].pc = "closed"
  /\ shut' = [shut EXCEPT !.services = IF shut.callers[c].kind = "Shutdown" THEN @ + 1 ELSE @,
                          !.once = "done",
                          !.callers[c].pc = "wait"]
  /\ UNCHANGED othersShutdown

\* healthCheckTask: the select takes the closed channel, the task returns
\* and its deferred wg.Done runs
TaskStop ==
  /\ shut.task = "running"
  /\ shut.closed > 0
  /\ shut' = [shut EXCEPT !.task = "stopped", !.wg = @ - 1]
  /\ UNCHANGED othersShutdown

\* r.wg.Wait() returns, and so does the call
WaitReturn(c) ==
  /\ shut.callers[c].pc = "wait"
  /\ shut.wg = 0
  /\ shut' = [shut EXCEPT !.callers[c].pc = "returned"]
  /\ UNCHANGED othersShutdown

\* the steps that the scheduler takes once a call has been made
ShutdownRun ==
  \/ \E c \in CallerIds : OnceEnter(c)
  \/ \E c \in CallerIds : OnceSkip(c)
  \/ \E c \in CallerIds : CloseChan(c)
  \/ \E c \in CallerIds : OnceLeave(c)
  \/ TaskStop
  \/ \E c \in CallerIds : WaitReturn(c)

NextShutdown ==
  \/ \E c \in CallerIds, kind \in ShutdownKinds : ShutdownCall(c, kind)
  \/ ShutdownRun

SpecShutdown == InitShutdown /\ [][NextShutdown]_vars

\* the goroutines of the callers and the health check task are scheduled:
\* a step of theirs that stays possible is taken
SpecShutdownLive == SpecShutdown /\ WF_vars(ShutdownRun)

(***************************************************************************)
(* A streaming completion from dispatch to the end of the relay:           *)
(* handleStreamingChatCompletion calls CreateChatCompletionRaw, which      *)
(* selects the provider, increments its counter, makes the upstream call   *)
(* and decrements the counter in a deferred function when it returns; the  *)
(* handler then relays the body it was handed.                             *)
(***************************************************************************)
\* bound: the lines of an upstream body that is relayed
MaxRelayLines == 2

InitRelay ==
  /\ ServingIdle
  /\ gate = NoGate
  /\ drv = NoDriver
  /\ tools = NoTools
  /\ mcp = NoMCP
  /\ script = NoScript

\* CreateChatCompletionRaw returns the answer of the upstream: its deferred
\* function decrements the counter, and the handler writes the status line
\* and enters the scanner loop
RawReturn(k, body, prompt) ==
  /\ req[k].pc = "call"
  /\ reachable[req[k].prov]
  /\ stream.pc = "idle"
  /\ ActiveCompletions' = [ActiveCompletions EXCEPT ![req[k].prov] = IF @ > 0 THEN @ - 1 ELSE @]
  /\ req' = [req EXCEPT ![k].pc = "relay"]
  /\ stream' = [pc |-> "scan", body |-> body, in |-> body, out |-> <<>>,
                prompt |-> prompt, completion |-> 0]
  /\ UNCHANGED <<StaticModels, Healthy, ModelMap, reachable, ref, hc, quarantined, call, http,
                 gate, drv, tools, mcp, script, cyc, shut, lock, stored>>

\* the client goes away: the context of the request is cancelled, the read
\* of the upstream body fails and scanner.Scan returns false
ClientDisconnect ==
  /\ stream.pc = "scan"
  /\ stream' = [stream EXCEPT !.pc = "done"]
  /\ UNCHANGED othersStream

\* handleStreamingChatCompletion returns (resp.Body.Close runs)
RelayReturn(k) ==
  /\ req[k].pc = "relay"
  /\ stream.pc = "done"
  /\ req' = [req EXCEPT ![k] = IdleReq]
  /\ stream' = NoStream
  /\ UNCHANGED <<StaticModels, Healthy, ActiveCompletions, ModelMap, reachable, ref, hc,
                 quarantined, call, http, gate, drv, tools, mcp, script, cyc, shut, lock, stored>>

NextRelay ==
  \/ \E k \in ReqIds, m \in Models : Dispatch(k, m)
  \/ \E k \in ReqIds, disable \in BOOLEAN : CallError(k, disable)
  \/ \E k \in ReqIds, body \in Bodies(MaxRelayLines), prompt \in 1..MaxPrompt : RawReturn(k, body, prompt)
  \/ ScanLine
  \/ StreamEnd
  \/ ClientDisconnect
  \/ \E k \in ReqIds : RelayReturn(k)

SpecRelay == InitRelay /\ [][NextRelay]_vars

(***************************************************************************)
(* The index lock.  DisableProvider holds ModelMapMu for the whole call,   *)
(* EnableProvider takes no lock, and HandleHealth reads the index and the  *)
(* flags of the providers while it holds the lock shared.                  *)
(***************************************************************************)
InitLock ==
  /\ ServingIdle
  /\ gate = NoGate
  /\ drv = NoDriver
  /\ tools = NoTools
  /\ mcp = NoMCP
  /\ script = NoScript

\* the variables that the calls of this part never change
othersLock == <<StaticModels, ActiveCompletions, reachable, ref, req, hc, quarantined, call, http, stream, gate, drv, tools, mcp, script, cyc, shut, stored>>

\* DisableProvider(p): r.ModelMapMu.Lock() is granted
DisableLock(p) ==
  /\ lock.disable.pc = "idle"
  /\ lock.writer = "" /\ lock.readers = 0
  /\ lock' = [lock EXCEPT !.writer = "DisableProvider", !.disable = [pc |-> "locked", p |-> p]]
  /\ UNCHANGED <<othersLock, Healthy, ModelMap>>

\* DisableProvider: the call returns if the provider is not healthy (the
\* deferred Unlock runs), otherwise the flag is set to false
DisableFlag ==
  /\ lock.disable.pc = "locked"
  /\ IF ~Healthy[lock.disable.p]
     THEN /\ lock' = [lock EXCEPT !.writer = "", !.disable = [pc |-> "idle", p |-> ""]]
          /\ UNCHANGED Healthy
     ELSE /\ lock' = [lock EXCEPT !.disable.pc = "flagged"]
          /\ Healthy' = [Healthy EXCEPT ![lock.disable.p] = FALSE]
  /\ UNCHANGED <<othersLock, ModelMap>>

\* DisableProvider: the provider is taken out of the index, the call returns
\* and the deferred Unlock runs
DisablePurge ==
  /\ lock.disable.pc = "flagged"
  /\ ModelMap' = RemoveFromModelMap(ModelMap, lock.disable.p)
  /\ lock' = [lock EXCEPT !.writer = "", !.disable = [pc |-> "idle", p |-> ""]]
  /\ UNCHANGED <<othersLock, Healthy>>

\* EnableProvider(p), called by a probe of the health check or by a fetch of
\* a refresh: no lock is taken
EnableCall(p) ==
  /\ IF ~Healthy[p] THEN EnableProvider(p) ELSE UNCHANGED Healthy
  /\ UNCHANGED <<othersLock, ModelMap, lock>>

\* HandleHealth: r.ModelMapMu.RLock() is granted
HealthRLock ==
  /\ lock.health.pc = "idle"
  /\ lock.writer = ""
  /\ lock' = [lock EXCEPT !.readers = @ + 1,
                          !.health = [pc |-> "models", models |-> {}, healthy |-> {}]]
  /\ UNCHANGED <<othersLock, Healthy, ModelMap>>

\* HandleHealth: len(r.ModelMap) is read
HealthReadModels ==
  /\ lock.health.pc = "models"
  /\ lock' = [lock EXCEPT !.health.pc = "providers", !.health.models = ListModels(ModelMap)]
  /\ UNCHANGED <<othersLock, Healthy, ModelMap>>

\* HandleHealth: the flags of the providers are read
HealthReadProviders ==
  /\ lock.health.pc = "providers"
  /\ lock' = [lock EXCEPT !.health.pc = "unlock",
                          !.health.healthy = {p \in Providers : Healthy[p]}]
  /\ UNCHANGED <<othersLock, Healthy, ModelMap>>

\* HandleHealth: the answer is written and the deferred RUnlock runs
HealthRUnlock ==
  /\ lock.health.pc = "unlock"
  /\ lock' = [lock EXCEPT !.readers = @ - 1, !.health.pc = "idle"]
  /\ UNCHANGED <<othersLock, Healthy, ModelMap>>

NextLock ==
  \/ \E p \in Providers : DisableLock(p)
  \/ DisableFlag
  \/ DisablePurge
  \/ \E p \in Providers : EnableCall(p)
  \/ HealthRLock
  \/ HealthReadModels
  \/ HealthReadProviders
  \/ HealthRUnlock

SpecLock == InitLock /\ [][NextLock]_vars

(***************************************************************************)
(* Usage of one chat completion request: the request is served either by   *)
(* handleNonStreamingChatCompletion or by handleStreamingChatCompletion,   *)
(* and the upstream sends a usage object or none.                          *)
(***************************************************************************)
\* a request without "stream": true, served by CreateChatCompletion
UsageJSON ==
  /\ http = NoResponse
  /\ stream.pc = "idle"
  /\ \E m \in Models, o \in Outcomes : handleNonStreamingChatCompletion(m, o)

\* a request with "stream": true, up to the scanner loop
UsageStreamOpen ==
  /\ http = NoResponse
  /\ \E body \in Bodies(MaxLines), prompt \in 1..MaxPrompt : StreamOpen(body, prompt)

NextUsage ==
  \/ UsageJSON
  \/ UsageStreamOpen
  \/ ScanLine
  \/ StreamEnd

SpecUsage == InitStream /\ [][NextUsage]_vars

(***************************************************************************)
(* Shutdown and the background work: the health check task, the probes of  *)
(* checkDisabledProviders and the refreshes it starts, next to a call of   *)
(* Shutdown or StopBackgroundTasks.                                        *)
(***************************************************************************)
\* the goroutine that calls Shutdown or StopBackgroundTasks
DrainCaller == 1

\* the router is constructed and serving, StartBackgroundTasks has been called
InitDrain ==
  /\ RegistryIdle
  /\ cyc = NoCycle
  /\ lock = NoLock
  /\ stored = NoStored
  /\ gate = NoGate
  /\ drv = NoDriver
  /\ tools = NoTools
  /\ mcp = NoMCP
  /\ script = NoScript
  /\ shut = [NoShutdown EXCEPT
               !.wg = 1, !.task = "running",
               !.callers = [c \in CallerIds |-> [kind |-> "", pc |-> "idle"]]]

\* healthCheckTask: the select takes the tick and checkDisabledProviders
\* runs; the select chooses among the cases that are ready, so a tick can be
\* taken after the channel has been closed
DrainTick ==
  /\ shut.task = "running"
  /\ Tick

\* healthCheckTask: the select takes the closed channel; the task is at the
\* select when checkDisabledProviders has returned (its probes are over)
DrainTaskStop ==
  /\ hc = {}
  /\ TaskStop

\* the call of Shutdown or StopBackgroundTasks
DrainCall ==
  \E kind \in ShutdownKinds : ShutdownCall(DrainCaller, kind)

NextDrain ==
  \/ \E i \in HandlerIds : HandleModels(i)
  \/ \E i \in RefreshIds : RefreshStart(i)
  \/ \E i \in RefreshIds, p \in Providers : RefreshVisit(i, p)
  \/ \E i \in RefreshIds, p \in Providers : RefreshFetchFail(i, p)
  \/ \E i \in RefreshIds, p \in Providers : RefreshFetchOK(i, p)
  \/ \E i \in RefreshIds : RefreshBuild(i)
  \/ DrainTick
  \/ \E p \in Providers : ProbeFail(p)
  \/ \E p \in Providers : ProbeOK(p)
  \/ \E p \in Providers : Flip(p)
  \/ DrainCall
  \/ OnceEnter(DrainCaller)
  \/ CloseChan(DrainCaller)
  \/ OnceLeave(DrainCaller)
  \/ DrainTaskStop
  \/ WaitReturn(DrainCaller)

SpecDrain == InitDrain /\ [][NextDrain]_vars

(***************************************************************************)
(* The registry of a configuration in which no provider has a static model *)
(* list: the same operations as in Spec.                                   *)
(***************************************************************************)
InitDynamic ==
  /\ StaticModels = [p \in Providers |-> FALSE]
  /\ Healthy = [p \in Providers |-> TRUE]
  /\ ActiveCompletions = [p \in Providers |-> 0]
  /\ ModelMap = [m \in {} |-> <<>>]
  /\ reachable = [p \in Providers |-> TRUE]
  /\ ref = [i \in RefreshIds |-> IdleRefresh]
  /\ req = [k \in ReqIds |-> IdleReq]
  /\ hc = {}
  /\ quarantined = [p \in Providers |-> FALSE]
  /\ call = <<>>
  /\ http = NoResponse
  /\ stream = NoStream
  /\ gate = NoGate
  /\ drv = NoDriver
  /\ tools = NoTools
  /\ mcp = NoMCP
  /\ script = NoScript
  /\ cyc = NoCycle
  /\ shut = NoShutdown
  /\ lock = NoLock
  /\ stored = NoStored

\* the upstream whose availability changes
Unstable == "A"

\* the operations of Spec; the upstream of one provider goes away and comes
\* back, the other one stays reachable (a provider that is reachable is
\* still quarantined when it answers with one of the fatal patterns)
NextDynamic ==
  \/ \E i \in HandlerIds : HandleModels(i)
  \/ \E i \in RefreshIds : RefreshStart(i)
  \/ \E i \in RefreshIds, p \in Providers : RefreshVisit(i, p)
  \/ \E i \in RefreshIds, p \in Providers : RefreshFetchFail(i, p)
  \/ \E i \in RefreshIds, p \in Providers : RefreshFetchOK(i, p)
  \/ \E i \in RefreshIds : RefreshBuild(i)
  \/ \E k \in ReqIds, m \in Models : Dispatch(k, m)
  \/ \E k \in ReqIds : CallOK(k)
  \/ \E k \in ReqIds, disable \in BOOLEAN : CallError(k, disable)
  \/ Tick
  \/ \E p \in Providers : ProbeFail(p)
  \/ \E p \in Providers : ProbeOK(p)
  \/ Flip(Unstable)

SpecDynamic == InitDynamic /\ [][NextDynamic]_vars

(***************************************************************************)
(* Stored responses: internal/responses/service.go over the Badger        *)
(* storage, whose Update and View transactions are atomic.  CreateResponse *)
(* stores the record and starts processResponse in a goroutine under       *)
(* context.Background(); CancelResponse may run at any point of it.        *)
(***************************************************************************)

\* the variables that the response service never changes
othersResponses == <<StaticModels, Healthy, ActiveCompletions, ModelMap, reachable, ref, req, hc, quarantined, call, http, stream, gate, drv, tools, mcp, script, cyc, shut, lock>>

InitResponses ==
  /\ ServingIdle
  /\ ModelMap = CHOOSE m \in BuiltModelMaps : TRUE
  /\ gate = NoGate
  /\ drv = NoDriver
  /\ tools = NoTools
  /\ mcp = NoMCP
  /\ script = NoScript

\* BadgerStorage.UpdateStatus inside its transaction: response.Status = status,
\* whatever the status was
UpdateStatus(response, status) == [response EXCEPT !.status = status]

\* CreateResponse: Store of a record with StatusPending under a new id, then
\* go s.processResponse(context.Background(), responseID, req); prev is
\* req.PreviousResponseID, 0 for the empty string
CreateResponse(r, prev) ==
  /\ stored[r].status = "none"
  /\ stored' = [stored EXCEPT ![r] = [NoStored[r] EXCEPT !.status = "pending", !.pc = "start", !.prev = prev]]
  /\ UNCHANGED othersResponses

\* processResponse: UpdateStatus(ctx, responseID, StatusInProgress), then the
\* test of req.PreviousResponseID
ProcUpdateInProgress(r) ==
  /\ stored[r].pc = "start"
  /\ stored' = [stored EXCEPT ![r] = [UpdateStatus(@, "in_progress") EXCEPT
                                        !.pc = IF stored[r].prev # 0 THEN "history" ELSE "call"]]
  /\ UNCHANGED othersResponses

\* processResponse: Get of the previous response; when it is not stored,
\* UpdateStatus(ctx, responseID, StatusError) and return
ProcHistory(r) ==
  /\ stored[r].pc = "history"
  /\ stored' = [stored EXCEPT ![r] =
                  IF stored[stored[r].prev].status = "none"
                  THEN [UpdateStatus(@, "error") EXCEPT !.pc = "done"]
                  ELSE [@ EXCEPT !.pc = "call"]]
  /\ UNCHANGED othersResponses

\* processResponse: s.router.CreateChatCompletion returns a response
ProcCallOK(r) ==
  /\ stored[r].pc = "call"
  /\ stored' = [stored EXCEPT ![r].pc = "get"]
  /\ UNCHANGED othersResponses

\* processResponse: s.router.CreateChatCompletion returns an error,
\* UpdateStatus(ctx, responseID, StatusError) and return
ProcCallError(r) ==
  /\ stored[r].pc = "call"
  /\ stored' = [stored EXCEPT ![r] = [UpdateStatus(@, "error") EXCEPT !.pc = "done"]]
  /\ UNCHANGED othersResponses

\* processResponse: stored, err := s.storage.Get(ctx, responseID), a copy of
\* the record as it is at that moment
ProcGet(r) ==
  /\ stored[r].pc = "get"
  /\ stored' = [stored EXCEPT ![r].copy = stored[r].status, ![r].pc = "store"]
  /\ UNCHANGED othersResponses

\* processResponse: stored.Status = StatusCompleted and Store of the copy
ProcStore(r) ==
  /\ stored[r].pc = "store"
  /\ stored' = [stored EXCEPT ![r].status = "completed", ![r].pc = "done"]
  /\ UNCHANGED othersResponses

\* CancelResponse of a stored response: UpdateStatus(ctx, id, StatusCancelled);
\* for an id that is not stored UpdateStatus fails and nothing changes
CancelResponse(r) ==
  /\ stored[r].status # "none"
  /\ stored' = [stored EXCEPT ![r] = [UpdateStatus(@, "cancelled") EXCEPT !.cancelled = TRUE]]
  /\ UNCHANGED othersResponses

NextResponses ==
  \/ \E r \in ResponseIds, prev \in 0..MaxResponses : CreateResponse(r, prev)
  \/ \E r \in ResponseIds : ProcUpdateInProgress(r)
  \/ \E r \in ResponseIds : ProcHistory(r)
  \/ \E r \in ResponseIds : ProcCallOK(r)
  \/ \E r \in ResponseIds : ProcCallError(r)
  \/ \E r \in ResponseIds : ProcGet(r)
  \/ \E r \in ResponseIds : ProcStore(r)
  \/ \E r \in ResponseIds : CancelResponse(r)

SpecResponses == InitResponses /\ [][NextResponses]_vars

(***************************************************************************)
(* Properties                                                              *)
(***************************************************************************)
\* the request of slot k is dispatched to provider p in this step
Selects(k, p) ==
  req[k].pc = "idle" /\ req'[k].pc = "call" /\ req'[k].prov = p

\* C1: after a provider has been quarantined, no Select that starts afterwards
\* returns it until the health check re-admits it; for static and dynamic
\* providers and whatever refreshes and requests happen in between.
C1_NoSelectWhileQuarantined ==
  [][\A k \in ReqIds, p \in Providers : quarantined[p] => ~Selects(k, p)]_vars

\* C4: every model id of the index (the ids GET /v1/models returns) maps to
\* a non-empty list of provider names, each a registered provider.
C4_EntriesNonEmptyAndRegistered ==
  \A m \in ListModels(ModelMap) :
     /\ Len(ModelMap[m]) > 0
     /\ \A i \in 1..Len(ModelMap[m]) : ModelMap[m][i] \in Providers

\* C4 witness: a quarantine has taken the only provider of a model out of the
\* index while another model keeps a provider
C4_Witness ==
  /\ ~Healthy["A"]
  /\ "m2" \notin DOMAIN ModelMap
  /\ "m1" \in DOMAIN ModelMap
  /\ ModelMap["m1"] = <<"B">>

\* a step of RefreshModels call i other than the quarantine of a provider
\* whose fetch failed
RefreshStep(i) ==
  ref'[i] # ref[i] /\ Healthy' = Healthy

\* C5: a refresh rebuilds the index atomically: the only step of a refresh
\* that changes the index readers see is the one that ends it, so a reader
\* sees the index of before the refresh or the one the refresh produces.
C5_RefreshAtomic ==
  [][\A i \in RefreshIds :
        RefreshStep(i) /\ ModelMap' # ModelMap => ref'[i].pc = "idle"]_vars

\* a probe of the health check for p is under way and p answers
Recovering(p) ==
  p \in hc /\ reachable[p]

\* every model p serves and its policy accepts is in the index with p listed
ListedForAll(p) ==
  \A m \in Accepted(p) : m \in DOMAIN ModelMap /\ p \in Range(ModelMap[m])

\* C6: recovery is eventual: a quarantined dynamic provider that answers the
\* probe of a health check tick and stays reachable becomes healthy again,
\* and every model it serves and its policy accepts reappears in the index
\* with the provider listed.
C6_EventualRecovery ==
  \A p \in Providers \ UNION StaticChoices :
     /\ Recovering(p) ~> (~reachable[p] \/ Healthy[p])
     /\ Recovering(p) ~> (~reachable[p] \/ ListedForAll(p))

\* C6 witness: the refresh the health check started after the probe of A
\* succeeded has taken the models of A and is about to write the index
C6_Witness ==
  /\ ref[TaskRefresh("A")].pc = "loop"
  /\ ref[TaskRefresh("A")].todo = {}
  /\ ref[TaskRefresh("A")].fetching = {}
  /\ "A" \in ref[TaskRefresh("A")].got
  /\ Healthy["A"]
  /\ reachable["A"]

\* C2: for every provider the counter of active completions is never below
\* zero, whatever the interleaving of the increments and decrements of
\* concurrent requests.
C2_ActiveNonNegative ==
  \A p \in Providers : ActiveCompletions[p] >= 0

\* the first provider of the entry whose counter is the minimum over the entry
FirstLeastLoaded(providers, active) ==
  providers[CHOOSE i \in 1..Len(providers) :
              /\ \A j \in 1..Len(providers) : active[providers[i]] <= active[providers[j]]
              /\ \A j \in 1..(i - 1) : active[providers[j]] > active[providers[i]]]

\* C3: when the model of a request maps to two or more providers, the provider
\* selected is one of the entry whose counter is the minimum over the entry,
\* and the first such in the order of the entry.
C3_SelectsFirstLeastLoaded ==
  [][\A k \in CallIds :
        (call[k].pc = "idle" /\ call'[k].pc = "inc" /\ Len(ModelMap[call'[k].model]) >= 2)
           => call'[k].prov = FirstLeastLoaded(ModelMap[call'[k].model], ActiveCompletions)]_vars

\* C7: a chat completion request that fails is answered with 404 exactly when
\* the model is not in the index, on the streaming and the non-streaming
\* path, with 400 when the body does not decode, and with 500 for every other
\* failure, a non-2xx answer of a reachable upstream included.
C7_StatusOfFailure ==
  (http.path # "none" /\ http.outcome # "ok") =>
     http.status = IF http.outcome = "bad_body" THEN StatusBadRequest
                   ELSE IF http.outcome = "model_not_found" THEN StatusNotFound
                   ELSE StatusInternalServerError

\* the text contains one of the listed transport substrings or a fatal
\* upstream API marker
HasListedSubstring(errStr) ==
  \/ \E i \in 1..Len(connectionPatterns) : Contains(errStr, connectionPatterns[i])
  \/ \E i \in 1..Len(fatalAPIPatterns) : Contains(errStr, fatalAPIPatterns[i])

\* C8: whenever the upstream call fails with an error whose text contains a
\* listed transport substring or a fatal upstream API marker, the provider
\* chosen is quarantined and the request fails.
C8_ListedErrorQuarantines ==
  (http.failed /\ http.outcome \in ErrorIds /\ HasListedSubstring(ErrorText(http.outcome))) =>
     (~Healthy[http.prov] /\ http.status >= StatusBadRequest)

\* C9: a non-2xx answer of a reachable upstream that carries no fatal marker
\* never quarantines the provider: after it the provider is healthy and
\* listed in the index for all its models.
C9_StatusErrorKeepsProvider ==
  (http.outcome \in StatusIds) =>
     (Healthy[http.prov] /\ ListedForAll(http.prov))

\* the body is one an OpenAI-compatible upstream sends: chunks with one
\* choice, the last of them with a finish_reason and none before it, blank
\* lines between them, and "data: [DONE]" at the end, no line longer than the
\* scanner takes
WellFormedBody(body) ==
  /\ Len(body) >= 2
  /\ body[Len(body)].kind = "done"
  /\ \A i \in 1..(Len(body) - 1) :
        /\ body[i].kind \in {"chunk", "blank"}
        /\ body[i].kind = "chunk" => body[i].choices = 1
        /\ ~body[i].long
  /\ \E i \in 1..(Len(body) - 1) :
        /\ body[i].kind = "chunk" /\ body[i].finish # ""
        /\ \A j \in 1..(Len(body) - 1) : (j # i /\ body[j].kind = "chunk") => (j < i /\ body[j].finish = "")

\* no line of the body has a usage field
NoUpstreamUsage(body) ==
  \A i \in 1..Len(body) : body[i].usage = NoUsage

\* the last data line before the first "data: [DONE]" of what the client got
LastDataLine(out) ==
  LET done == CHOOSE d \in 1..Len(out) : out[d].kind = "done" /\ \A j \in 1..(d - 1) : out[j].kind # "done"
      last == CHOOSE i \in 1..(done - 1) : IsDataLine(out[i]) /\ \A j \in (i + 1)..(done - 1) : ~IsDataLine(out[j])
  IN  out[last]

\* C10: for every streaming answer in which the upstream sends no usage, the
\* last data chunk the client receives before "data: [DONE]" parses as JSON
\* and has a usage field whose total is prompt + completion.
C10_LastChunkHasUsage ==
  (stream.pc = "done" /\ WellFormedBody(stream.body) /\ NoUpstreamUsage(stream.body)) =>
     LET chunk == ParseChunk(LastDataLine(stream.out))
     IN  /\ chunk.ok
         /\ chunk.usage # NoUsage
         /\ chunk.usage.total = chunk.usage.prompt + chunk.usage.completion

\* the line handleStreamingChatCompletion may put in the place of an upstream
\* line: the line itself, or for a chunk with finish_reason "stop" and no
\* usage the same chunk with a usage field
InPlaceOf(written, line) ==
  \/ written = line
  \/ /\ line.kind = "chunk" /\ line.choices > 0 /\ line.finish = "stop" /\ line.usage = NoUsage
     /\ written.kind = "chunk" /\ written.choices = line.choices /\ written.finish = line.finish
     /\ written.usage # NoUsage

\* C11: streaming pass-through is order-preserving: when the handler returns,
\* the lines written to the client are as many as the lines of the upstream
\* body and in the same order, each the upstream line or its replacement in
\* place; no line is dropped, duplicated or added, and "data: [DONE]" is
\* written unchanged.
C11_PassThroughInOrder ==
  stream.pc = "done" =>
     /\ Len(stream.out) = Len(stream.body)
     /\ \A i \in 1..Len(stream.out) :
           /\ InPlaceOf(stream.out[i], stream.body[i])
           /\ stream.body[i].kind = "done" => stream.out[i] = stream.body[i]

\* the Authorization header `Bearer <token>` with exactly the configured token
ExactBearer == gate.header = BearerPrefix \o gate.token

\* the request served last was routed to a registered endpoint other than /health
ToProtectedEndpoint == gate.method # "" /\ gate.matched \notin {"HandleHealth", "HandleCatchAll"}

\* C12: with a bearer token configured, the handler of a registered endpoint
\* other than /health runs only for a request whose Authorization header is
\* "Bearer " followed by exactly the configured token; every other request
\* routed to such an endpoint is answered 401 and the handler does not run;
\* a request for /health reaches HandleHealth whatever its header is.
C12_BearerTokenRequired ==
  gate.token # <<>> =>
     /\ ToProtectedEndpoint => (gate.ran <=> ExactBearer)
     /\ (ToProtectedEndpoint /\ ~ExactBearer) => gate.status = StatusUnauthorized
     /\ gate.path = <<"health">> => (gate.matched = "HandleHealth" /\ gate.ran)

\* C12 witness: a token is configured and a request with a bearer header that
\* differs from the token only by a trailing space was turned away with 401
\* from a method-specific endpoint
C12_Witness ==
  /\ gate.token # <<>>
  /\ gate.matched = "HandleCancelResponse"
  /\ gate.header = BearerPrefix \o gate.token \o <<" ">>
  /\ ~gate.ran
  /\ gate.status = StatusUnauthorized

\* every loop completion of the run so far returned the same single call of
\* one of the two tools, and the driver has an MCP server to run it
SameCallEveryTurn ==
  /\ drv.mcpServer
  /\ drv.agree
  /\ Len(drv.turn1) = 1
  /\ drv.turn1[1].name \in ToolNames

\* number of times the call of the first turn was handed to CallTool
TimesExecuted == drv.executed[toolCallKey(drv.turn1[1].name, drv.turn1[1].args)]

\* C13: when the model emits the same tool call (same name, same arguments)
\* on every turn, the run of the driver terminates, it returns the fallback
\* completion unless a call to the provider or to the tool failed, and the
\* tool call is executed no more than 2 + 1 times.
C13_SameCallEndsInFallback ==
  /\ [](SameCallEveryTurn => TimesExecuted <= 2 + 1)
  /\ []((SameCallEveryTurn /\ drv.pc = "done" /\ drv.result # "error") => drv.result = "fallback")
  /\ (drv.pc # "idle") ~> (drv.pc = "done")

\* C13 witness: the model emitted the same tool_search call on both turns,
\* the call was executed once and the run returned the fallback completion
C13_Witness ==
  /\ SameCallEveryTurn
  /\ drv.turn1[1].name = "tool_search"
  /\ drv.pc = "done"
  /\ drv.completions = 2
  /\ TimesExecuted = 1
  /\ drv.result = "fallback"

C16_FailureIsErrorText ==
  (script.pc = "done" /\ script.err.set) =>
     /\ ~script.response.error
     /\ Contains(script.response.text, ErrorPrefix \o script.err.text)

\* C16 (amended): every failure of the evaluation of a script yields a
\* successful tool response; its text carries "Error: <message>" after what
\* the script printed when the script set no return value before it failed,
\* and it is the return value alone when the script set one.
C16_FailureIsErrorTextUnlessReturned ==
  (script.pc = "done" /\ script.err.set) =>
     /\ ~script.response.error
     /\ ~script.mcpResult.set =>
           script.response.text = script.output \o NewlineErrorPrefix \o script.err.text
     /\ script.mcpResult.set => script.response.text = script.mcpResult.text

\* C16 witness: a script that printed and then failed, without a return value
C16_Witness ==
  /\ script.pc = "done"
  /\ script.err = Some(<<"b">>)
  /\ script.output # <<>>
  /\ ~script.mcpResult.set
  /\ Contains(script.response.text, ErrorPrefix \o <<"b">>)

\* the manifest of directory d is valid: it parses and its script file exists
ValidManifest(d) == tools[d].present /\ tools[d].script

\* position of a directory in the walk
DirIndex(d) == CHOOSE i \in 1..Len(DirSeq) : DirSeq[i] = d

\* directory d defines a tool: its manifest is valid and no valid manifest
\* of the same name comes later in the walk
DefinesTool(d) ==
  /\ ValidManifest(d)
  /\ \A o \in Dirs :
        (ValidManifest(o) /\ cfgName(o, tools[o]) = cfgName(d, tools[d]))
           => DirIndex(o) <= DirIndex(d)

\* no other directory has a manifest of the same name
OnlyOfItsName(d) ==
  \A o \in Dirs \ {d} : tools[o].present => cfgName(o, tools[o]) # cfgName(d, tools[d])

\* the names of the listed tools and of the on-demand tools of the directory
ListedNow ==
  {cfgName(d, tools[d]) : d \in {x \in Dirs : DefinesTool(x) /\ tools[x].visibility \in {"", "native"}}}

OnDemandNow ==
  {cfgName(d, tools[d]) : d \in {x \in Dirs : DefinesTool(x) /\ tools[x].visibility = "ondemand"}}

\* the query matches the tool of directory d
QueryMatches(d, query) ==
  query = "" \/ query = cfgName(d, tools[d]) \/ query \in tools[d].keywords

\* the names, among these, of the tools a query matches
MatchingNow(names, query) ==
  {cfgName(d, tools[d]) : d \in {x \in Dirs : DefinesTool(x) /\ cfgName(x, tools[x]) \in names
                                              /\ QueryMatches(x, query)}}

\* a request has been served and the directory is as the request found it
Served == mcp.method # "none"

C18_OnDemandHiddenSearchableRunnable ==
  (Served /\ mcp.mode = "normal") =>
     \A d \in Dirs :
        DefinesTool(d) =>
           /\ (tools[d].visibility = "ondemand" /\ mcp.method = "tools/list")
                 => cfgName(d, tools[d]) \notin mcp.list
           /\ (tools[d].visibility = "ondemand" /\ mcp.method = "tool_search"
               /\ QueryMatches(d, mcp.arg))
                 => cfgName(d, tools[d]) \in mcp.found
           /\ (tools[d].visibility = "ondemand" /\ mcp.method = "execute_tool"
               /\ mcp.arg = cfgName(d, tools[d]))
                 => mcp.run = [status |-> "ran", content |-> tools[d].content]
           /\ (tools[d].visibility = "" /\ mcp.method = "tools/list")
                 => cfgName(d, tools[d]) \in mcp.list

\* C19: in a normal-mode request tools/list contains tool_search and
\* execute_tool when at least one on-demand tool exists, and neither of them
\* when none exists.
C19_DiscoveryToolsIffOnDemand ==
  (Served /\ mcp.mode = "normal" /\ mcp.method = "tools/list") =>
     /\ OnDemandNow # {} => DiscoveryTools \subseteq mcp.list
     /\ OnDemandNow = {} => DiscoveryTools \cap mcp.list = {}

\* C19 witness: a listing of a directory whose only on-demand manifest has no
\* script file: the listed tool is there, tool_search and execute_tool are not
C19_Witness ==
  /\ Served
  /\ mcp.mode = "normal"
  /\ mcp.method = "tools/list"
  /\ tools["d1"].present /\ tools["d1"].visibility = "ondemand" /\ ~tools["d1"].script
  /\ "d2" \in mcp.list
  /\ DiscoveryTools \cap mcp.list = {}

\* C20: in a discovery-mode request tools/list is exactly {tool_search,
\* execute_tool}, without any listed tool, on-demand tool or built-in, and
\* tool_search finds every such tool its query matches (all of them for the
\* empty query).
C20_DiscoveryListsOnlyDiscoveryTools ==
  (Served /\ mcp.mode = "discovery") =>
     /\ mcp.method = "tools/list" => mcp.list = DiscoveryTools
     /\ mcp.method = "tool_search" =>
           /\ MatchingNow(ListedNow \cup OnDemandNow, mcp.arg) \subseteq mcp.found
           /\ mcp.arg = "" => Builtins \subseteq mcp.found

\* C20 witness: in discovery mode the empty query found the built-in, a
\* listed tool and an on-demand tool
C20_Witness ==
  /\ Served
  /\ mcp.mode = "discovery"
  /\ mcp.method = "tool_search"
  /\ mcp.arg = ""
  /\ tools["d1"].visibility = "native"
  /\ tools["d2"].visibility = "ondemand"
  /\ mcp.found = {"execute_code", "d1", "d2"}

\* the allowlists and denylists of up to two model ids
PolicyLists ==
  {<<>>} \cup {<<a>> : a \in Models} \cup {<<a, b>> : a \in Models, b \in Models}

\* model m passes a policy: it is not on the denylist and, if there is an
\* allowlist, it is on it
Passes(m, allowlist, denylist) ==
  /\ m \notin Range(denylist)
  /\ allowlist # <<>> => m \in Range(allowlist)

\* C21: for every model m and provider p listed under m in the index, m
\* passes the policy of p: it is not on the denylist of p and, if p has an
\* allowlist, it is on it (the denylist wins); static and dynamic providers
\* alike.  shouldIncludeModel decides so for every pair of lists.
C21_ListedPassesPolicy ==
  /\ \A m \in DOMAIN ModelMap : \A p \in Range(ModelMap[m]) :
        Passes(m, Allowlist[p], Denylist[p])
  /\ \A m \in Models, allowlist \in PolicyLists, denylist \in PolicyLists :
        shouldIncludeModel(m, allowlist, denylist) <=> Passes(m, allowlist, denylist)

\* C21 witness: a refresh has listed the static and the dynamic provider
\* under a model both accept, and has left out the model that both offer and
\* that is on the denylists (and on the allowlist of the static provider)
C21_Witness ==
  /\ DOMAIN ModelMap = {"m1", "m2"}
  /\ Range(ModelMap["m1"]) = {"A", "B"}
  /\ Range(ModelMap["m2"]) = {"A"}
  /\ StaticModels["B"] /\ ~StaticModels["A"]
  /\ "m3" \in Range(Offered["A"]) \cap Range(Offered["B"]) \cap Range(Allowlist["B"])

\* a step of the health check task: a tick, the end of a probe, or a step of
\* a refresh the task has started
ReconcilerStep ==
  hc' # hc \/ \E p \in Providers : ref'[TaskRefresh(p)] # ref[TaskRefresh(p)]

\* C22: the health check task never changes the health of a static provider:
\* a tick probes only providers that are not healthy and not static (every
\* registered provider is enabled), and no step of the task changes the
\* Healthy flag of a static provider.
C22_ReconcilerLeavesStaticAlone ==
  [][/\ hc = {} => \A p \in hc' : ~Healthy[p] /\ ~StaticModels[p]
     /\ ReconcilerStep => \A p \in Providers : StaticModels[p] => Healthy'[p] = Healthy[p]]_vars

\* C22 witness: a tick has started the probe of the dynamic provider while
\* the static provider is unhealthy too and is not probed
C22_Witness ==
  /\ StaticModels["B"] /\ ~Healthy["B"]
  /\ ~StaticModels["A"] /\ ~Healthy["A"]
  /\ hc = {"A"}

\* C23: a failure of a provider with a static models list does not remove its
\* models: when a request routed to it has failed with a connection error,
\* its configured models are still in the index.
C23_StaticModelsStayListed ==
  [][\A k \in ReqIds :
        CallError(k, TRUE) /\ StaticModels[req[k].prov]
           => Accepted(req[k].prov) \subseteq ListModels(ModelMap')]_vars

\* DisableProvider(p) is called and returns in this step
Quarantines(p) ==
  \/ \E k \in ReqIds : req[k].prov = p /\ CallError(k, TRUE)
  \/ \E i \in RefreshIds : RefreshFetchFail(i, p)

\* C28: when a quarantine call for p returns, p is in no entry of the index
\* and no entry of the index is empty, whatever the state of p and of the
\* index was when the call was made.
C28_QuarantineLeavesNoEntry ==
  [][\A p \in Providers :
        Quarantines(p) =>
           \A m \in DOMAIN ModelMap' :
              p \notin Range(ModelMap'[m]) /\ Len(ModelMap'[m]) > 0]_vars

\* the quarantine, the re-admission and the refresh after them are over
CycleOver ==
  cyc.pc = "refresh" /\ ref[CycleRefreshId].pc = "idle"

\* what a refresh right after construction lists: the static providers and
\* the dynamic providers that answer, each under the models its policy accepts
FreshIndex ==
  ModelSet({p \in Providers : StaticModels[p] \/ reachable[p]})

\* C24: quarantining a provider, re-admitting it and then running a refresh
\* to completion, with the same upstreams answering, leaves the index
\* mapping every model to the same set of providers as the fresh refresh did.
C24_CycleRestoresIndex ==
  CycleOver => IndexSets(ModelMap) = cyc.fresh /\ cyc.fresh = FreshIndex

\* C24 witness: the dynamic provider A answers, was listed, was taken out of
\* the index by the quarantine, re-admitted, and is listed again by the
\* refresh that followed
C24_Witness ==
  /\ CycleOver
  /\ cyc.p = "A" /\ ~StaticModels["A"] /\ reachable["A"]
  /\ quarantined["A"]
  /\ "m2" \in DOMAIN ModelMap /\ "A" \in Range(ModelMap["m2"])

\* C25: shutdown has once semantics: for any number of calls of Shutdown and
\* StopBackgroundTasks, in any order and concurrently, the shutdown channel
\* is closed exactly once (never twice, and it is closed when a call has
\* come out of the once), and every call returns.
C25_ShutdownOnce ==
  /\ [](shut.closed <= 1)
  /\ [](\A c \in DOMAIN shut.callers :
          shut.callers[c].pc \in {"wait", "returned"} => shut.closed = 1)
  /\ \A c \in CallerIds :
        (c \in DOMAIN shut.callers /\ shut.callers[c].pc # "idle")
           ~> (shut.callers[c].pc = "returned")

\* C25 witness: calls of both kinds have been made while the health check
\* task was running, and all of them have returned
C25_Witness ==
  /\ DOMAIN shut.callers = CallerIds
  /\ \A c \in CallerIds : shut.callers[c].pc = "returned"
  /\ {shut.callers[c].kind : c \in CallerIds} = ShutdownKinds
  /\ shut.task = "stopped"
  /\ shut.closed = 1

\* C26: a streaming completion is counted in the counter of its provider
\* from dispatch until the upstream body is exhausted or the client goes
\* away: while its stream is being relayed the counter includes it.
C26_CountedWhileRelayed ==
  \A k \in ReqIds :
     req[k].pc = "relay" /\ stream.pc = "scan" => ActiveCompletions[req[k].prov] >= 1

\* C27: every change of the Healthy flag of a provider, a quarantine and a
\* re-admission alike, is made while the exclusive index lock is held, so a
\* reader that holds the shared lock never sees the flag change.
C27_FlagChangesUnderLock ==
  [][/\ Healthy' # Healthy => lock.writer # ""
     /\ lock.readers > 0 => Healthy' = Healthy]_vars

\* the name of a tool call is one of the two the driver processes
AllowedName(tc) ==
  tc.name = "tool_search" \/ tc.name = "execute_tool"

HasAllowed(toolCalls) ==
  \E i \in 1..Len(toolCalls) : AllowedName(toolCalls[i])

\* the first tool call of a response, in response order, with an allowed name
FirstAllowed(toolCalls) ==
  toolCalls[CHOOSE i \in 1..Len(toolCalls) :
              AllowedName(toolCalls[i]) /\ \A j \in 1..(i - 1) : ~AllowedName(toolCalls[j])]

\* the canonical key of the first allowed call of a response
FirstAllowedKey(toolCalls) ==
  <<FirstAllowed(toolCalls).name, FirstAllowed(toolCalls).args>>

\* C29: in each iteration of the driver at most one tool call is executed,
\* and it is the first tool call of the response whose name is tool_search
\* or execute_tool; calls with another name and the later calls of the
\* response are not executed, and if no call has an allowed name the response
\* is returned unchanged and nothing is executed.
C29_OnlyFirstAllowedExecuted ==
  [][/\ drv.pc = "execute" =>
           /\ HasAllowed(drv.toolCalls)
           /\ \A k \in Keys :
                 drv'.executed[k] - drv.executed[k] =
                    IF k = FirstAllowedKey(drv.toolCalls) THEN 1 ELSE 0
     /\ drv.pc # "execute" => drv'.executed = drv.executed
     /\ drv.pc = "complete" /\ drv.mcpServer /\ drv'.result # "error"
           /\ drv'.toolCalls # <<>> /\ ~HasAllowed(drv'.toolCalls) =>
           drv'.pc = "done" /\ drv'.result = "response"]_vars

\* C29 witness: in its second iteration the driver is about to execute the
\* second tool call of a response whose first call has a made-up name
C29_Witness ==
  /\ drv.pc = "execute"
  /\ drv.iteration = 1
  /\ drv.executed[<<"tool_search", 1>>] = 1
  /\ drv.toolCalls = <<Hallucinated, [name |-> "execute_tool", args |-> 1]>>
  /\ drv.singleToolCall = <<[name |-> "execute_tool", args |-> 1]>>

\* C30: the driver takes the fallback path exactly when, the current call
\* counted, its key has been seen at least 3 times or it is the key of the
\* call executed just before and has been seen at least 2 times; on that path
\* the call is not executed, one system message is appended, the tool list
\* of the request is cleared, one more completion is requested and its
\* result is what the driver returns.
C30_FallbackExactlyOnLoop ==
  /\ [](drv.fallbacks <= 1 /\ drv.systemMessages <= 1)
  /\ [][/\ drv.pc = "complete" /\ drv'.pc \in {"execute", "fallback"} =>
             LET key == FirstAllowedKey(drv'.toolCalls)
                 seen == drv'.recentToolCalls[key]
             IN  /\ seen = drv.recentToolCalls[key] + 1
                 /\ (drv'.pc = "fallback") <=>
                       (seen >= 3 \/ (key = drv.lastToolCallKey /\ seen >= 2))
                 /\ drv'.pc = "fallback" =>
                       /\ drv'.systemMessages = drv.systemMessages + 1
                       /\ ~drv'.tools
                       /\ drv'.singleToolCall = <<>>
                 /\ drv'.pc = "execute" =>
                       drv'.systemMessages = drv.systemMessages /\ drv'.tools
        /\ drv.pc = "fallback" =>
             /\ drv'.pc = "done"
             /\ drv'.result \in {"fallback", "error"}
             /\ drv'.fallbacks = drv.fallbacks + 1
             /\ drv'.completions = drv.completions
             /\ drv'.executed = drv.executed
             /\ drv'.systemMessages = drv.systemMessages
             /\ ~drv'.tools
        /\ drv.pc # "fallback" => drv'.fallbacks = drv.fallbacks
        /\ drv'.pc = "fallback" => drv.pc = "complete"]_vars

\* C30 witness: the driver has returned the answer of the fallback completion
\* after a call was seen for the third time, with another call executed in
\* between
C30_Witness ==
  /\ drv.pc = "done"
  /\ drv.result = "fallback"
  /\ drv.fallbacks = 1
  /\ drv.systemMessages = 1
  /\ \E k \in Keys : drv.recentToolCalls[k] = 3 /\ drv.lastToolCallKey # k

\* C31: a usage object of the upstream reaches the client as it is. The
\* response of a non-streaming completion whose upstream response has a usage
\* carries that usage, and every line written to the client of a stream in
\* place of an upstream chunk with a usage is that line, so that no estimate
\* stands where the upstream gave a usage.
C31_UpstreamUsagePreserved ==
  /\ (http.path = "json" /\ ~http.failed /\ http.upstream # NoUsage) =>
        http.usage = http.upstream
  /\ stream.pc # "idle" =>
        \A i \in 1..Len(stream.out) :
           stream.body[i].usage # NoUsage =>
              /\ stream.out[i] = stream.body[i]
              /\ stream.out[i].usage.from # "estimate"

\* C31 witness: the relay has written the chunk that ends the answer (finish
\* reason "stop", the one an estimate would be put into) with the usage of
\* the upstream
C31_Witness ==
  /\ stream.pc = "done"
  /\ \E i \in 1..Len(stream.out) :
        /\ stream.body[i].finish = "stop"
        /\ stream.body[i].usage = UpstreamUsage
        /\ stream.out[i].usage = UpstreamUsage

\* the string a return call of a script hands to SetResult
ResultOf(stmt) ==
  IF stmt.op = "return_string" THEN stmt.arg ELSE MarshalString(stmt.arg)

RefreshReturns(i) ==
  ref[i].pc = "loop" /\ ref'[i].pc = "idle"

\* provider p is named in an entry of the index
Listed(map, p) ==
  \E m \in DOMAIN map : p \in Range(map[m])

\* C33: when a refresh completes, every dynamic provider whose list_models
\* call failed during that refresh is not healthy and is named in no entry
\* of the index, whatever other refreshes run at the same time.
C33_FailedFetchQuarantined ==
  [][\A i \in RefreshIds :
        RefreshReturns(i) =>
           \A p \in ref[i].failed : ~Healthy'[p] /\ ~Listed(ModelMap', p)]_vars

\* a call of Shutdown or StopBackgroundTasks has returned
ShutdownReturned ==
  \E c \in CallerIds : shut.callers[c].pc = "returned"

\* C34: when Shutdown or StopBackgroundTasks has returned, the health check
\* task has returned and no refresh started by checkDisabledProviders is
\* waiting to run or running, so none changes the index afterwards.
C34_ShutdownDrainsRefreshes ==
  ShutdownReturned =>
     /\ shut.task = "stopped"
     /\ \A p \in Providers : ref[TaskRefresh(p)].pc = "idle"

\* C35: load accounting is exact: once all the concurrent completions have
\* returned, the counter of every provider is what it was before they
\* started (0), whatever the interleaving of their increments and decrements.
C35_CountersRestored ==
  (\A k \in CallIds : call[k].pc = "idle") =>
     \A p \in Providers : ActiveCompletions[p] = 0

\* no RefreshModels call is under way or waiting to run
NoRefreshInProgress ==
  \A i \in RefreshIds : ref[i].pc = "idle"

\* C36: when no provider is static and no refresh is in progress, every
\* provider named in an entry of the index is healthy, also after refreshes
\* that overlapped and quarantines that ran next to them.
C36_ListedImpliesHealthy ==
  NoRefreshInProgress =>
     \A p \in Providers : Listed(ModelMap, p) => Healthy[p]

\* C37: a static provider that has been quarantined stays unhealthy: no step
\* of the health check task, of a refresh or of a request makes it healthy
\* again.
C37_StaticStaysQuarantined ==
  [][\A p \in Providers : (StaticModels[p] /\ ~Healthy[p]) => ~Healthy'[p]]_vars

\* C37 witness: a static provider is quarantined while the health check task
\* probes another provider and a refresh is under way
C37_Witness ==
  \E p \in Providers :
     /\ StaticModels[p] /\ ~Healthy[p]
     /\ hc # {}
     /\ \E i \in RefreshIds : ref[i].pc = "loop"

\* the keys of the calls that are handed to ExecuteToolCalls in this iteration
KeysToExecute ==
  {toolCallKey(drv.singleToolCall[i].name, drv.singleToolCall[i].args) :
     i \in 1..Len(drv.singleToolCall)}

\* C38: within one run of the driver no call key is executed more than
\* twice, and the key executed in an iteration is not the key that was
\* executed in the iteration before.
C38_AtMostTwiceNeverConsecutive ==
  /\ \A k \in Keys : drv.executed[k] <= 2
  /\ drv.pc = "execute" => drv.prevExecuted \notin KeysToExecute

\* C38 witness: a run that executed one call, then another, then the first
\* one again
C38_Witness ==
  \E k \in Keys :
     /\ drv.executed[k] = 2
     /\ drv.prevExecuted = k
     /\ \E j \in Keys \ {k} : drv.executed[j] = 1
     /\ drv.iteration = 3

\* the visibility settings of the two providers
ProviderVisibilities == {"native", "ondemand"}

\* tool n is surfaced by the provider with this visibility: the provider
\* returns it from GetTools and takes its ExecuteTool calls
SurfacedBy(n, visibility) ==
  /\ n \in GetTools(tools, visibility)
  /\ ExecuteTool(tools, visibility, n).status # "unknown_tool"

\* the providers that surface tool n
Surfacing(n) ==
  {v \in ProviderVisibilities : SurfacedBy(n, v)}

\* the tools the scan of the tools root accepts
Scanned ==
  {n \in ToolIds : scanTools(tools)[n].exists}

\* C39 (as stated): every tool the scan accepts is surfaced by exactly one of
\* the two providers, whatever the visibility of its manifest.
C39_ExactlyOneProvider ==
  \A n \in Scanned : Cardinality(Surfacing(n)) = 1

\* C39 (amended): a tool the scan accepts is surfaced by exactly one provider
\* when its visibility is "native", "ondemand" or not set (the native
\* provider for "native" and for none, the on-demand provider for
\* "ondemand"), and by no provider when its visibility is anything else; it
\* is never surfaced by both.
C39_OneProviderForKnownVisibility ==
  \A n \in Scanned :
     LET visibility == scanTools(tools)[n].visibility
     IN  /\ visibility \in {"", "native"} => Surfacing(n) = {"native"}
         /\ visibility = "ondemand" => Surfacing(n) = {"ondemand"}
         /\ visibility \notin {"", "native", "ondemand"} => Surfacing(n) = {}

\* C39 witness: the tools root holds a tool without visibility and an
\* on-demand tool, each surfaced by its provider, after a request was served
C39_Witness ==
  /\ mcp.method # "none"
  /\ \E n \in Scanned : scanTools(tools)[n].visibility = "" /\ Surfacing(n) = {"native"}
  /\ \E n \in Scanned : scanTools(tools)[n].visibility = "ondemand" /\ Surfacing(n) = {"ondemand"}

\* C40: once a stored response has been cancelled, its status stays
\* cancelled: no step of the background processing that comes later changes
\* a cancelled status into in_progress, completed or error
C40_CancelledStaysCancelled ==
  [][\A r \in ResponseIds :
       stored[r].status = "cancelled" => stored'[r].status = "cancelled"]_vars

====
